---- MODULE Spec2Model ----
(***************************************************************************)
(* gcauto: AI-assisted commit message generation (src/main.go).            *)
(*                                                                         *)
(* Three specifications over one set of variables:                         *)
(*   SpecExtract  the pure function extractCommitMessage applied to        *)
(*                bounded raw inputs (and applied again to its result);    *)
(*   SpecPartial  one call of jjPartialCommit on a bounded working copy;   *)
(*   Spec         one run of main().                                       *)
(* Strings are sequences of one-character strings, so that trimming,       *)
(* prefix/suffix tests and line splitting are computed as the Go code      *)
(* computes them.                                                          *)
(***************************************************************************)
EXTENDS Integers, Sequences, FiniteSets, TLC

VARIABLES
    \* --- extractCommitMessage harness
    raw,        \* the raw generator output handed to extractCommitMessage
    out,        \* extractCommitMessage(raw), once applied
    out2,       \* extractCommitMessage(out), once applied again
    xpc,        \* "idle" | "in" | "once" | "twice"
    \* --- jjPartialCommit and the working copy
    allEntries,     \* []JJFileEntry: the changed files, in the backend's order
    selectedPaths,  \* the paths chosen for the commit
    pmessage,       \* the message handed to the commit function
    disk,           \* path -> file on disk ([exists, content])
    mode,           \* path -> permission bits of the file on disk
    parent,         \* path -> file in the parent revision of the working copy
    pre,            \* disk as it was when the commit function was called
    savedFiles,     \* []savedFile captured so far ([path, content, deleted])
    idx,            \* position in the loop the call is executing
    ppc,            \* position in jjPartialCommit / jjCommit
    perr,           \* the error returned: [kind, path]
    commits,        \* the commits made: [message, paths]
    restoreCalls,   \* the argument lists of the jj restore calls made
    attempted,      \* paths whose restoration was attempted after the commit step
    logged,         \* paths reported "Failed to restore/re-delete" on rollback
    manualList,     \* the paths printed for manual recovery on interruption
    canceled,       \* ctx.Done() is closed
    \* --- one run of main()
    mpc,            \* position in main
    autoConfirm,    \* -y / --yes
    jjRepo,         \* the directory is a Jujutsu repository (jj root succeeds)
    hookEnv,        \* what _runPreCommit finds in the Git repository
    wc,             \* the changed files of the working copy (staged files for Git)
    vcs,            \* the backend detected
    commitFn,       \* the commit function selected: "git" | "jj" | "jjPartial"
    selected,       \* the file selector's mask
    selectedEntries,\* the file selector's result
    stdin,          \* lines typed and not yet read from standard input
    eof,            \* standard input is closed
    rbuf,           \* lines held in the file selector's bufio.Reader
    input,          \* the line the file selector has read, trimmed
    selectErr,      \* the error selectJJFiles returned: "none" | "ctx" | "read"
    dropped,        \* lines that were buffered by a reader that is gone
    diff,           \* the paths the diff given to the generator covers
    fileList,       \* the file list given to the generator
    stat,           \* the paths the stat given to the generator covers
    hooksRun,       \* a pre-commit hook was run
    genCalls,       \* calls of the text generator
    prompt,         \* the prompt handed to the text generator
    commitMessage,  \* the current message
    shown,          \* times the message was displayed
    response,       \* the last line read by the confirmation loop
    lastEdit,       \* the result of the last editMessageInEditor call
    commitArgs,     \* the messages the commit function was invoked with
    exitCode,       \* the process exit status, -1 while running
    exitKind        \* what the run reported when it ended

extractVars == <<raw, out, out2, xpc>>

mainVars ==
    <<mpc, autoConfirm, jjRepo, hookEnv, wc, vcs, commitFn, selected, selectedEntries,
      stdin, eof, rbuf, input, selectErr, dropped, diff, fileList, stat, hooksRun, genCalls, prompt, commitMessage,
      shown, response, lastEdit, commitArgs, exitCode, exitKind>>

partialVars ==
    <<allEntries, selectedPaths, pmessage, disk, mode, parent, pre, savedFiles, idx, ppc,
      perr, commits, restoreCalls, attempted, logged, manualList, canceled>>

vars == <<extractVars, partialVars, mainVars>>

----------------------------------------------------------------------------
(* Strings                                                                 *)

\* A TLA+ string as a sequence of characters.
Chars(s) == [i \in 1..Len(s) |-> SubSeq(s, i, i)]

\* unicode.IsSpace on the characters that occur in the model.
IsSpace(c) == c \in {" ", "\t", "\n", "\r"}

RECURSIVE TrimLeft(_)
TrimLeft(s) ==
    IF s # <<>> /\ IsSpace(Head(s)) THEN TrimLeft(Tail(s)) ELSE s

RECURSIVE TrimRight(_)
TrimRight(s) ==
    IF s # <<>> /\ IsSpace(s[Len(s)]) THEN TrimRight(SubSeq(s, 1, Len(s) - 1)) ELSE s

\* strings.TrimSpace
TrimSpace(s) == TrimRight(TrimLeft(s))

\* strings.HasPrefix
HasPrefix(s, p) == Len(s) >= Len(p) /\ SubSeq(s, 1, Len(p)) = p

\* strings.HasSuffix
HasSuffix(s, p) == Len(s) >= Len(p) /\ SubSeq(s, Len(s) - Len(p) + 1, Len(s)) = p

\* strings.TrimSuffix
TrimSuffix(s, p) == IF HasSuffix(s, p) THEN SubSeq(s, 1, Len(s) - Len(p)) ELSE s

\* strings.Contains
Contains(s, p) ==
    \E i \in 1..(Len(s) - Len(p) + 1) : SubSeq(s, i, i + Len(p) - 1) = p

\* strings.Split(s, "\n"): always at least one line, none holding "\n".
RECURSIVE SplitLines(_)
SplitLines(s) ==
    IF \A i \in 1..Len(s) : s[i] # "\n"
    THEN <<s>>
    ELSE LET k == CHOOSE i \in 1..Len(s) :
                      s[i] = "\n" /\ \A j \in 1..(i - 1) : s[j] # "\n"
         IN  <<SubSeq(s, 1, k - 1)>> \o SplitLines(SubSeq(s, k + 1, Len(s)))

\* strings.Join(lines, "\n")
RECURSIVE JoinLines(_)
JoinLines(ls) ==
    IF ls = <<>> THEN <<>>
    ELSE IF Len(ls) = 1 THEN ls[1]
    ELSE ls[1] \o <<"\n">> \o JoinLines(Tail(ls))

----------------------------------------------------------------------------
(* extractCommitMessage, src/main.go:453-497                               *)

conventionalTypes ==
    { Chars("feat"), Chars("fix"), Chars("docs"), Chars("style"),
      Chars("refactor"), Chars("perf"), Chars("test"), Chars("build"),
      Chars("ci"), Chars("chore"), Chars("revert") }

\* The backquote character U+0060, which a TLA+ string cannot hold.
BackQuote == "BQ"

Fence == <<BackQuote, BackQuote, BackQuote>>

Separator == Chars("---")

\* The test of main.go:462 on one line: type( , type: or type! after trimming.
IsHeaderLine(line) ==
    LET trimmed == TrimSpace(line)
    IN  \E typ \in conventionalTypes :
            \/ HasPrefix(trimmed, typ \o <<"(">>)
            \/ HasPrefix(trimmed, typ \o <<":">>)
            \/ HasPrefix(trimmed, typ \o <<"!">>)

\* The scan without its break: the last header line wins.
StartIndex_Last(lines) ==
    IF \E i \in 1..Len(lines) : IsHeaderLine(lines[i])
    THEN CHOOSE i \in 1..Len(lines) :
             IsHeaderLine(lines[i]) /\ \A j \in (i + 1)..Len(lines) : ~IsHeaderLine(lines[j])
    ELSE 0

\* startIndex of main.go:457-470, 1-based; 0 stands for Go's -1.
StartIndex(lines) ==
    IF \E i \in 1..Len(lines) : IsHeaderLine(lines[i])
    THEN CHOOSE i \in 1..Len(lines) :
             IsHeaderLine(lines[i]) /\ \A j \in 1..(i - 1) : ~IsHeaderLine(lines[j])
    ELSE 0

\* The loop of main.go:478-486: lines up to, not including, the first fence line.
RECURSIVE UntilFence(_)
UntilFence(ls) ==
    IF ls = <<>> \/ TrimSpace(Head(ls)) = Fence THEN <<>>
    ELSE <<Head(ls)>> \o UntilFence(Tail(ls))

\* The loop of main.go:491-494.
RECURSIVE StripSeparators(_)
StripSeparators(e) ==
    IF HasSuffix(e, Separator)
    THEN StripSeparators(TrimSpace(TrimSuffix(e, Separator)))
    ELSE e

\* An extractor whose fallback trims the raw text.
extractCommitMessage_TrimFallback(r) ==
    LET lines      == SplitLines(r)
        startIndex == StartIndex(lines)
    IN  IF startIndex = 0
        THEN TrimSpace(r)
        ELSE LET extractedLines == UntilFence(SubSeq(lines, startIndex, Len(lines)))
                 extracted      == JoinLines(extractedLines)
             IN  StripSeparators(TrimSpace(extracted))

extractCommitMessage(r) ==
    LET lines      == SplitLines(r)
        startIndex == StartIndex(lines)
    IN  IF startIndex = 0
        THEN r
        ELSE LET extractedLines == UntilFence(SubSeq(lines, startIndex, Len(lines)))
                 extracted      == JoinLines(extractedLines)
             IN  StripSeparators(TrimSpace(extracted))

----------------------------------------------------------------------------
(* The working copy and jjPartialCommit, src/main.go:952-1068              *)

\* The number of changed files of the working copy.
MaxFiles == 3

Paths == 1..MaxFiles

AbsentFile == [exists |-> FALSE, content |-> <<>>]

File(c) == [exists |-> TRUE, content |-> c]

\* The bytes of path p in the working copy and in the parent revision.
WorkContent(p) == <<"work", p>>

BaseContent(p) == <<"base", p>>

\* What a write that failed midway leaves behind (os.WriteFile truncates first).
Truncated == File(<<>>)

NoError == [kind |-> "none", path |-> 0]

Error(k, p) == [kind |-> k, path |-> p]

\* The permission bits of a path: none for an absent file, those of a script
\* that may be executed, and those os.WriteFile is given for a file it
\* creates, main.go:1029 and 1060 (the umask may clear more of them).
NoMode == "none"

ExecutableMode == "0755"

CreatedMode == "0644"

\* The permission bits of the file of path p in the working copy and in the
\* parent revision: the second file is a script, the others are not, and no
\* change of a run changes the bits of a file.
WorkMode(p) == IF p = 2 THEN ExecutableMode ELSE CreatedMode

ModeOf(f, p) == IF f.exists THEN WorkMode(p) ELSE NoMode

\* The working copy of a changed file with status st, and its parent state.
DiskOf(st, p) == IF st = "D" THEN AbsentFile ELSE File(WorkContent(p))

ParentOf(st, p) == IF st = "A" THEN AbsentFile ELSE File(BaseContent(p))

NoLine == <<"none">>

\* No prompt was built yet.
NoPrompt ==
    [fileList |-> <<>>, stat |-> {}, note |-> "", diff |-> [head |-> <<>>, tail |-> ""]]

NoEdit == [ok |-> FALSE, text |-> <<>>, done |-> FALSE, exit |-> "none", tmp |-> "none"]

\* The extractor harness is not in use.
ExtractIdle == raw = <<>> /\ out = <<>> /\ out2 = <<>> /\ xpc = "idle"

\* No run of main is in progress.
MainIdle ==
    /\ mpc = "idle"
    /\ autoConfirm = FALSE
    /\ jjRepo = TRUE
    /\ hookEnv = [config |-> FALSE, hook |-> FALSE, installed |-> FALSE, acm |-> TRUE,
                  passes |-> TRUE, clears |-> FALSE]
    /\ wc = <<>>
    /\ vcs = "unset"
    /\ commitFn = "unset"
    /\ selected = <<>>
    /\ selectedEntries = <<>>
    /\ stdin = <<>>
    /\ eof = FALSE
    /\ rbuf = <<>>
    /\ input = NoLine
    /\ selectErr = "none"
    /\ dropped = 0
    /\ diff = {}
    /\ fileList = <<>>
    /\ stat = {}
    /\ hooksRun = FALSE
    /\ genCalls = 0
    /\ prompt = NoPrompt
    /\ commitMessage = <<>>
    /\ shown = 0
    /\ response = NoLine
    /\ lastEdit = NoEdit
    /\ commitArgs = <<>>
    /\ exitCode = -1
    /\ exitKind = "none"

\* No call of the commit function is in progress.
PartialIdle ==
    /\ allEntries = <<>>
    /\ selectedPaths = {}
    /\ pmessage = <<>>
    /\ disk = [p \in Paths |-> AbsentFile]
    /\ mode = [p \in Paths |-> NoMode]
    /\ parent = [p \in Paths |-> AbsentFile]
    /\ pre = [p \in Paths |-> AbsentFile]
    /\ savedFiles = <<>>
    /\ idx = 0
    /\ ppc = "idle"
    /\ perr = NoError
    /\ commits = <<>>
    /\ restoreCalls = <<>>
    /\ attempted = {}
    /\ logged = {}
    /\ manualList = <<>>
    /\ canceled = FALSE

\* main.go:958-970: the entries whose path is not selected, in order.
ExcludedEntries ==
    SelectSeq(allEntries, LAMBDA e : e.Path \notin selectedPaths)

ExcludedPaths == { ExcludedEntries[i].Path : i \in 1..Len(ExcludedEntries) }

\* The paths whose working-copy state differs from the parent revision: what a
\* commit of the working copy records.
ChangedPaths == { p \in Paths : disk[p] # parent[p] }

\* The controlling signal (SIGINT/SIGTERM) closes ctx.Done(), main.go:152.
Signal ==
    /\ \/ mpc = "idle" /\ ppc \notin {"idle", "returned"}
       \/ mpc \notin {"idle", "exited"}
    /\ ~canceled
    /\ canceled' = TRUE
    /\ UNCHANGED <<extractVars, mainVars, allEntries, selectedPaths, pmessage, disk, mode, parent, pre,
                   savedFiles, idx, ppc, perr, commits, restoreCalls, attempted, logged,
                   manualList>>

\* The effect of a jj commit that succeeds: the working-copy changes become a
\* revision with the message, which is the new parent.
DoCommit ==
    /\ commits' = Append(commits, [message |-> pmessage, paths |-> ChangedPaths])
    /\ parent' = disk

\* An entry that takes the capture path even with nothing excluded.
PartialEnter_AlwaysCapture ==
    /\ ppc = "entry"
    /\ ppc' = "capture"
    /\ idx' = 1
    /\ savedFiles' = <<>>
    /\ UNCHANGED <<extractVars, mainVars, allEntries, selectedPaths, pmessage, disk, mode, parent, pre,
                   perr, commits, restoreCalls, attempted, logged, manualList, canceled>>

\* main.go:957-975: with nothing excluded the call is jjCommit(ctx, message).
PartialEnter ==
    /\ ppc = "entry"
    /\ ppc' = IF ExcludedEntries = <<>> THEN "plain" ELSE "capture"
    /\ idx' = 1
    /\ savedFiles' = <<>>
    /\ UNCHANGED <<extractVars, mainVars, allEntries, selectedPaths, pmessage, disk, mode, parent, pre,
                   perr, commits, restoreCalls, attempted, logged, manualList, canceled>>

\* A whole commit whose command runs although ctx is done.
PlainCommit_IgnoresCancel ==
    /\ ppc = "plain"
    /\ ppc' = "returned"
    /\ \/ /\ DoCommit
          /\ perr' = Error("nil", 0)
       \/ /\ perr' = Error("commit", 0)
          /\ UNCHANGED <<commits, parent>>
    /\ UNCHANGED <<extractVars, mainVars, allEntries, selectedPaths, pmessage, disk, mode, pre, savedFiles,
                   idx, restoreCalls, attempted, logged, manualList, canceled>>

\* jjCommit, main.go:1081-1086 (gitCommit, main.go:631-637, in a Git run), as
\* the whole commit. exec.CommandContext does
\* not start the command when ctx is already done.
PlainCommit ==
    /\ ppc = "plain"
    /\ ppc' = "returned"
    /\ \/ /\ ~canceled
          /\ DoCommit
          /\ perr' = Error("nil", 0)
       \/ /\ perr' = Error("commit", 0)
          /\ UNCHANGED <<commits, parent>>
    /\ UNCHANGED <<extractVars, mainVars, allEntries, selectedPaths, pmessage, disk, mode, pre, savedFiles,
                   idx, restoreCalls, attempted, logged, manualList, canceled>>

\* main.go:985-1004, one iteration: a Deleted entry is only marked, any other
\* entry is read; a read that fails returns at once.
Capture ==
    /\ ppc = "capture"
    /\ idx <= Len(ExcludedEntries)
    /\ LET entry == ExcludedEntries[idx]
       IN  \/ /\ entry.Status = "D"
              /\ savedFiles' = Append(savedFiles,
                     [path |-> entry.Path, content |-> <<>>, deleted |-> TRUE])
              /\ idx' = idx + 1
              /\ UNCHANGED <<ppc, perr>>
           \/ /\ entry.Status # "D"
              /\ disk[entry.Path].exists
              /\ savedFiles' = Append(savedFiles,
                     [path |-> entry.Path, content |-> disk[entry.Path].content,
                      deleted |-> FALSE])
              /\ idx' = idx + 1
              /\ UNCHANGED <<ppc, perr>>
           \/ /\ entry.Status # "D"
              /\ perr' = Error("read", entry.Path)
              /\ ppc' = "returned"
              /\ UNCHANGED <<savedFiles, idx>>
    /\ UNCHANGED <<extractVars, mainVars, allEntries, selectedPaths, pmessage, disk, mode, parent, pre,
                   commits, restoreCalls, attempted, logged, manualList, canceled>>

CaptureDone ==
    /\ ppc = "capture"
    /\ idx > Len(ExcludedEntries)
    /\ ppc' = "restore"
    /\ UNCHANGED <<extractVars, mainVars, allEntries, selectedPaths, pmessage, disk, mode, parent, pre,
                   savedFiles, idx, perr, commits, restoreCalls, attempted, logged,
                   manualList, canceled>>

\* The permission bits after jj restore has put the paths of S back to
\* their state in the parent revision.
RevertedMode(S) ==
    [p \in Paths |-> IF p \in S THEN ModeOf(parent[p], p) ELSE mode[p]]

\* The permission bits after os.Remove or os.WriteFile has left the files as
\* d: a file that is gone has none, a file written in place keeps its bits,
\* a file created gets those handed to os.WriteFile.
ModeAfter(d) ==
    [p \in Paths |-> IF ~d[p].exists THEN NoMode
                     ELSE IF disk[p].exists THEN mode[p]
                     ELSE CreatedMode]

\* disk with the paths of S put back to their state in the parent revision.
Reverted(S) == [p \in Paths |-> IF p \in S THEN parent[p] ELSE disk[p]]

\* A restore call that names only the first excluded path.
Restore_FirstPathOnly ==
    /\ ppc = "restore"
    /\ \/ /\ canceled
          /\ perr' = Error("restore", 0)
          /\ ppc' = "returned"
          /\ UNCHANGED <<disk, mode, restoreCalls, idx>>
       \/ /\ ~canceled
          /\ restoreCalls' = Append(restoreCalls, {ExcludedEntries[1].Path})
          /\ disk' = Reverted({ExcludedEntries[1].Path})
          /\ mode' = RevertedMode({ExcludedEntries[1].Path})
          /\ ppc' = "commit"
          /\ UNCHANGED <<perr, idx>>
       \/ /\ ~canceled
          /\ restoreCalls' = Append(restoreCalls, ExcludedPaths)
          /\ \E S \in SUBSET ExcludedPaths : disk' = Reverted(S) /\ mode' = RevertedMode(S)
          /\ perr' = Error("restore", 0)
          /\ ppc' = "returned"
          /\ UNCHANGED idx
    /\ UNCHANGED <<extractVars, mainVars, allEntries, selectedPaths, pmessage, parent, pre,
                   savedFiles, commits, attempted, logged, manualList, canceled>>

\* main.go:1006-1018: one jj restore call with every excluded path.  The call
\* is not started when ctx is already done.  A call that was started and
\* failed (an error of the command, or its process killed when ctx is
\* canceled meanwhile) may already have reverted some of the paths.
Restore ==
    /\ ppc = "restore"
    /\ \/ /\ canceled
          /\ perr' = Error("restore", 0)
          /\ ppc' = "returned"
          /\ UNCHANGED <<disk, mode, restoreCalls, idx>>
       \/ /\ ~canceled
          /\ restoreCalls' = Append(restoreCalls, ExcludedPaths)
          /\ disk' = Reverted(ExcludedPaths)
          /\ mode' = RevertedMode(ExcludedPaths)
          /\ ppc' = "commit"
          /\ UNCHANGED <<perr, idx>>
       \/ /\ ~canceled
          /\ restoreCalls' = Append(restoreCalls, ExcludedPaths)
          /\ \E S \in SUBSET ExcludedPaths : disk' = Reverted(S) /\ mode' = RevertedMode(S)
          /\ perr' = Error("restore", 0)
          /\ ppc' = "returned"
          /\ UNCHANGED idx
    /\ UNCHANGED <<extractVars, mainVars, allEntries, selectedPaths, pmessage, parent, pre,
                   savedFiles, commits, attempted, logged, manualList, canceled>>

\* main.go:1021: jjCommit of what is left in the working copy.
Commit ==
    /\ ppc = "commit"
    /\ idx' = 1
    /\ \/ /\ ~canceled
          /\ DoCommit
          /\ ppc' = "reapply"
       \/ /\ ppc' = "rollback"
          /\ UNCHANGED <<commits, parent>>
    /\ UNCHANGED <<extractVars, mainVars, allEntries, selectedPaths, pmessage, disk, mode, pre, savedFiles,
                   perr, restoreCalls, attempted, logged, manualList, canceled>>

\* os.Remove(p): the outcomes; ok is FALSE for a failure other than "not exist".
RemoveOutcomes(p) ==
    IF disk[p].exists
    THEN { [ok |-> TRUE, disk |-> [disk EXCEPT ![p] = AbsentFile]],
           [ok |-> FALSE, disk |-> disk] }
    ELSE { [ok |-> TRUE, disk |-> disk] }

\* os.WriteFile(p, c, 0o644): the outcomes.
WriteOutcomes(p, c) ==
    { [ok |-> TRUE, disk |-> [disk EXCEPT ![p] = File(c)]],
      [ok |-> FALSE, disk |-> disk],
      [ok |-> FALSE, disk |-> [disk EXCEPT ![p] = Truncated]] }

\* A re-application that leaves a captured deletion alone.
ReapplyOutcomes_NoRedelete(saved) ==
    IF saved.deleted THEN { [ok |-> TRUE, disk |-> disk] }
    ELSE WriteOutcomes(saved.path, saved.content)

\* Re-applying one captured disposition, main.go:1025-1035 and 1054-1064.
ReapplyOutcomes(saved) ==
    IF saved.deleted THEN RemoveOutcomes(saved.path)
    ELSE WriteOutcomes(saved.path, saved.content)

\* A rollback that gives up at the first restoration that fails.
Rollback_StopOnFailure ==
    /\ ppc = "rollback"
    /\ idx <= Len(savedFiles)
    /\ LET saved == savedFiles[idx]
       IN  \E o \in ReapplyOutcomes(saved) :
               /\ disk' = o.disk
               /\ mode' = ModeAfter(o.disk)
               /\ logged' = IF o.ok THEN logged ELSE logged \cup {saved.path}
               /\ attempted' = attempted \cup {saved.path}
               /\ idx' = IF o.ok THEN idx + 1 ELSE Len(savedFiles) + 1
    /\ UNCHANGED <<extractVars, mainVars, allEntries, selectedPaths, pmessage, parent, pre,
                   savedFiles, ppc, perr, commits, restoreCalls, manualList, canceled>>

\* main.go:1024-1036, one iteration: after a failed commit every captured
\* file is re-applied; a failure is printed and the loop goes on.
Rollback ==
    /\ ppc = "rollback"
    /\ idx <= Len(savedFiles)
    /\ LET saved == savedFiles[idx]
       IN  \E o \in ReapplyOutcomes(saved) :
               /\ disk' = o.disk
               /\ mode' = ModeAfter(o.disk)
               /\ logged' = IF o.ok THEN logged ELSE logged \cup {saved.path}
               /\ attempted' = attempted \cup {saved.path}
    /\ idx' = idx + 1
    /\ UNCHANGED <<extractVars, mainVars, allEntries, selectedPaths, pmessage, parent, pre,
                   savedFiles, ppc, perr, commits, restoreCalls, manualList, canceled>>

\* A rollback that returns the error of a restoration that failed.
RollbackDone_ReportsRestoration ==
    /\ ppc = "rollback"
    /\ idx > Len(savedFiles)
    /\ perr' = IF logged = {} THEN Error("commit", 0)
               ELSE Error("rewrite", CHOOSE p \in logged : TRUE)
    /\ ppc' = "returned"
    /\ UNCHANGED <<extractVars, mainVars, allEntries, selectedPaths, pmessage, disk, mode, parent, pre,
                   savedFiles, idx, commits, restoreCalls, attempted, logged,
                   manualList, canceled>>

\* main.go:1037: the commit error is returned.
RollbackDone ==
    /\ ppc = "rollback"
    /\ idx > Len(savedFiles)
    /\ perr' = Error("commit", 0)
    /\ ppc' = "returned"
    /\ UNCHANGED <<extractVars, mainVars, allEntries, selectedPaths, pmessage, disk, mode, parent, pre,
                   savedFiles, idx, commits, restoreCalls, attempted, logged,
                   manualList, canceled>>

\* The list printed at main.go:1047-1049: every captured path.
RemainingPrinted == [i \in 1..Len(savedFiles) |-> savedFiles[i].path]

\* A restoration after the commit that goes on after a failure.
Reapply_ContinueOnFailure ==
    /\ ppc = "reapply"
    /\ idx <= Len(savedFiles)
    /\ LET saved == savedFiles[idx]
       IN  \/ /\ canceled
              /\ manualList' = RemainingPrinted
              /\ perr' = Error("ctx", 0)
              /\ ppc' = "returned"
              /\ UNCHANGED <<disk, mode, idx, attempted>>
           \/ /\ ~canceled
              /\ \E o \in ReapplyOutcomes(saved) :
                     /\ disk' = o.disk
                     /\ mode' = ModeAfter(o.disk)
                     /\ attempted' = attempted \cup {saved.path}
              /\ idx' = idx + 1
              /\ UNCHANGED <<ppc, perr, manualList>>
    /\ UNCHANGED <<extractVars, mainVars, allEntries, selectedPaths, pmessage, parent, pre,
                   savedFiles, commits, restoreCalls, logged, canceled>>

\* main.go:1041-1065, one iteration: ctx is checked first; then the captured
\* file is re-applied, and a failure returns at once, naming the path.
Reapply ==
    /\ ppc = "reapply"
    /\ idx <= Len(savedFiles)
    /\ LET saved == savedFiles[idx]
       IN  \/ /\ canceled
              /\ manualList' = RemainingPrinted
              /\ perr' = Error("ctx", 0)
              /\ ppc' = "returned"
              /\ UNCHANGED <<disk, mode, idx, attempted>>
           \/ /\ ~canceled
              /\ \E o \in ReapplyOutcomes(saved) :
                     /\ disk' = o.disk
                     /\ mode' = ModeAfter(o.disk)
                     /\ attempted' = attempted \cup {saved.path}
                     /\ IF o.ok
                        THEN /\ idx' = idx + 1
                             /\ UNCHANGED <<ppc, perr>>
                        ELSE /\ perr' = Error(IF saved.deleted THEN "redelete" ELSE "rewrite",
                                              saved.path)
                             /\ ppc' = "returned"
                             /\ UNCHANGED idx
              /\ UNCHANGED manualList
    /\ UNCHANGED <<extractVars, mainVars, allEntries, selectedPaths, pmessage, parent, pre,
                   savedFiles, commits, restoreCalls, logged, canceled>>

\* main.go:1067
ReapplyDone ==
    /\ ppc = "reapply"
    /\ idx > Len(savedFiles)
    /\ perr' = Error("nil", 0)
    /\ ppc' = "returned"
    /\ UNCHANGED <<extractVars, mainVars, allEntries, selectedPaths, pmessage, disk, mode, parent, pre,
                   savedFiles, idx, commits, restoreCalls, attempted, logged,
                   manualList, canceled>>

PartialStep ==
    \/ PartialEnter \/ PlainCommit \/ Capture \/ CaptureDone \/ Restore \/ Commit
    \/ Rollback \/ RollbackDone \/ Reapply \/ ReapplyDone

\* One call jjPartialCommit(ctx, message, selectedPaths, allEntries) on a
\* working copy whose changed files are allEntries.
EntryLists ==
    { [i \in 1..MaxFiles |-> [Status |-> st[i], Path |-> i]] :
          st \in [1..MaxFiles -> {"M", "A", "D"}] }

InitPartial ==
    /\ ExtractIdle
    /\ MainIdle
    /\ allEntries \in EntryLists
    /\ selectedPaths \in SUBSET Paths
    /\ pmessage = Chars("fix: a")
    /\ disk = [p \in Paths |-> DiskOf(allEntries[p].Status, p)]
    /\ mode = [p \in Paths |-> ModeOf(disk[p], p)]
    /\ parent = [p \in Paths |-> ParentOf(allEntries[p].Status, p)]
    /\ pre = disk
    /\ savedFiles = <<>>
    /\ idx = 0
    /\ ppc = "entry"
    /\ perr = NoError
    /\ commits = <<>>
    /\ restoreCalls = <<>>
    /\ attempted = {}
    /\ logged = {}
    /\ manualList = <<>>
    /\ canceled \in BOOLEAN

NextPartial == PartialStep \/ Signal

SpecPartial == InitPartial /\ [][NextPartial]_vars

----------------------------------------------------------------------------
(* Raw inputs of the extractor: concatenations of at most MaxChunks chunks *)

MaxChunks == 5

Chunks ==
    { Chars("fix:"), Chars("ci("), Chars("fix"), Chars("x"), Chars(" "),
      Chars("\n"), Fence, Separator }

RECURSIVE Concat(_)
Concat(cs) == IF cs = <<>> THEN <<>> ELSE Head(cs) \o Concat(Tail(cs))

RawInputs ==
    { Concat(cs) : cs \in UNION { [1..n -> Chunks] : n \in 0..MaxChunks } }

InitExtract ==
    /\ raw \in RawInputs
    /\ out = <<>>
    /\ out2 = <<>>
    /\ xpc = "in"
    /\ PartialIdle
    /\ MainIdle

\* generateCommitMessage's call extractCommitMessage(raw), main.go:580.
Extract ==
    /\ xpc = "in"
    /\ out' = extractCommitMessage(raw)
    /\ xpc' = "once"
    /\ UNCHANGED <<raw, out2, partialVars, mainVars>>

\* The extractor applied to its own result.
ExtractAgain ==
    /\ xpc = "once"
    /\ out2' = extractCommitMessage(out)
    /\ xpc' = "twice"
    /\ UNCHANGED <<raw, out, partialVars, mainVars>>

NextExtract == Extract \/ ExtractAgain

SpecExtract == InitExtract /\ [][NextExtract]_vars

----------------------------------------------------------------------------
(* main(), src/main.go:116-451, with selectJJFiles, src/main.go:820-913    *)

\* Lines typed ahead of the program that standard input holds at most.
MaxPending == 2

\* The display counter stops counting here.
MaxShown == 2

\* The counter of lost input lines stops counting here.
MaxDropped == 1

\* The changed files of a run in a Git repository are at most this many.
MaxGitFiles == 1

Upper == Chars("ABCDEFGHIJKLMNOPQRSTUVWXYZ")

Lower == Chars("abcdefghijklmnopqrstuvwxyz")

\* strings.ToLower
ToLowerChar(c) ==
    IF \E i \in 1..Len(Upper) : Upper[i] = c
    THEN Lower[CHOOSE i \in 1..Len(Upper) : Upper[i] = c]
    ELSE c

ToLower(s) == [i \in 1..Len(s) |-> ToLowerChar(s[i])]

\* strings.Fields
RECURSIVE Fields(_)
Fields(s) ==
    LET t == TrimLeft(s)
    IN  IF t = <<>> THEN <<>>
        ELSE LET n == IF \E i \in 1..Len(t) : IsSpace(t[i])
                      THEN CHOOSE i \in 1..Len(t) :
                               IsSpace(t[i]) /\ \A j \in 1..(i - 1) : ~IsSpace(t[j])
                      ELSE Len(t) + 1
             IN  <<SubSeq(t, 1, n - 1)>> \o Fields(SubSeq(t, n, Len(t)))

Digits == Chars("0123456789")

IsDigit(c) == \E i \in 1..Len(Digits) : Digits[i] = c

DigitVal(c) == (CHOOSE i \in 1..Len(Digits) : Digits[i] = c) - 1

\* fmt's scanNumber for the verb %d: the longest prefix of digits and "_".
RECURSIVE NumberToken(_)
NumberToken(s) ==
    IF s # <<>> /\ (IsDigit(Head(s)) \/ Head(s) = "_")
    THEN <<Head(s)>> \o NumberToken(Tail(s))
    ELSE <<>>

RECURSIVE Decimal(_)
Decimal(ds) ==
    IF ds = <<>> THEN 0
    ELSE 10 * Decimal(SubSeq(ds, 1, Len(ds) - 1)) + DigitVal(ds[Len(ds)])

\* fmt.Sscanf(numStr, "%d", &num), main.go:901: an optional sign and the
\* leading digits are scanned; what follows them is not looked at.
ScanInt(tok) ==
    LET signed == tok # <<>> /\ Head(tok) \in {"+", "-"}
        body   == IF signed THEN Tail(tok) ELSE tok
        num    == NumberToken(body)
    IN  IF num = <<>> \/ \E i \in 1..Len(num) : num[i] = "_"
        THEN [ok |-> FALSE, num |-> 0]
        ELSE [ok |-> TRUE,
              num |-> IF Head(tok) = "-" THEN 0 - Decimal(num) ELSE Decimal(num)]

\* A range test that lets the index after the last one through.
WriteIndex_OffByOne(mask, tok) ==
    LET r == ScanInt(tok)
    IN  IF ~r.ok THEN 0
        ELSE IF r.num < 1 \/ r.num > Len(mask) + 1 THEN 0
        ELSE r.num

\* main.go:900-908: the 1-based index of the mask a token makes the selector
\* write, 0 when the token is skipped.
WriteIndex(mask, tok) ==
    LET r == ScanInt(tok)
    IN  IF ~r.ok THEN 0
        ELSE IF r.num < 1 \/ r.num > Len(mask) THEN 0
        ELSE r.num

\* main.go:899-911, one token.
ToggleOne(mask, tok) ==
    LET num == WriteIndex(mask, tok)
    IN  IF num = 0 THEN mask
        ELSE [mask EXCEPT ![num] = ~mask[num]]

RECURSIVE ToggleAll(_, _)
ToggleAll(mask, toks) ==
    IF toks = <<>> THEN mask ELSE ToggleAll(ToggleOne(mask, Head(toks)), Tail(toks))

\* main.go:881-911: the mask after a command that is not the empty line.
ApplyCommand(mask, cmd) ==
    IF cmd = Chars("a") THEN [i \in 1..Len(mask) |-> TRUE]
    ELSE IF cmd = Chars("n") THEN [i \in 1..Len(mask) |-> FALSE]
    ELSE ToggleAll(mask, Fields(cmd))

\* main.go:871-878: the entries whose mask bit is set, in order.
RECURSIVE SelectedOf(_, _)
SelectedOf(entries, mask) ==
    IF entries = <<>> THEN <<>>
    ELSE (IF Head(mask) THEN <<Head(entries)>> ELSE <<>>)
             \o SelectedOf(Tail(entries), Tail(mask))

PathsOf(entries) == [i \in 1..Len(entries) |-> entries[i].Path]

PathSet(entries) == { entries[i].Path : i \in 1..Len(entries) }

\* What _runPreCommit finds: a .pre-commit-config.yaml, a hooks/pre-commit
\* file, the pre-commit command, staged files of kind A, C or M; whether the
\* hook passes, and whether it leaves nothing staged.
HookEnv(config, hook, installed, acm, passes, clears) ==
    [config |-> config, hook |-> hook, installed |-> installed, acm |-> acm,
     passes |-> passes, clears |-> clears]

NoHooks == HookEnv(FALSE, FALSE, FALSE, TRUE, TRUE, FALSE)

HookEnvs ==
    { NoHooks,
      HookEnv(FALSE, TRUE, FALSE, TRUE, TRUE, FALSE),
      HookEnv(FALSE, TRUE, FALSE, TRUE, FALSE, FALSE),
      HookEnv(TRUE, FALSE, FALSE, TRUE, TRUE, FALSE),
      HookEnv(TRUE, FALSE, TRUE, FALSE, TRUE, FALSE),
      HookEnv(TRUE, FALSE, TRUE, TRUE, TRUE, FALSE),
      HookEnv(TRUE, FALSE, TRUE, TRUE, TRUE, TRUE),
      HookEnv(TRUE, FALSE, TRUE, TRUE, FALSE, FALSE) }

\* _runPreCommit reaches the command that runs a hook, main.go:668 and 708.
\* With ctx done git rev-parse --show-toplevel fails and nil is returned.
HookRuns(env, c) ==
    /\ ~c
    /\ \/ ~env.config /\ env.hook
       \/ env.config /\ env.installed /\ env.acm

\* A pre-commit step that lets a failing hook pass.
RunPreCommit_IgnoresFailure(env, c) == "nil"

\* _runPreCommit, main.go:639-719: "nil" or "error".
RunPreCommit(env, c) ==
    IF HookRuns(env, c) /\ ~env.passes THEN "error" ELSE "nil"

\* The raw responses of the text generator; an executor trims its output.
RawOutputs == { <<>>, Chars("ok\nci: b\n---"), Chars("Error: x") }

\* What the editor leaves in the temporary file.
EditorContents == { Chars(" \n"), Chars("fix: b\n"), Chars("it failed\n") }

ConfirmLines ==
    { Chars("y"), Chars("Yes"), Chars("n"), Chars(" N "), Chars("no"), <<>>,
      Chars("e"), Chars("Edit"), Chars("x") }

SelectorLines ==
    { <<>>, Chars("a"), Chars("n"), Chars("1 3"), Chars("2"), Chars("0 9 x 1"),
      Chars("2x") }

\* What the user types while an earlier line is still unread.
TypeAhead == { Chars("y") }

\* The working copies of a run: n changed files with statuses M, A, D, M, ...
StatusAt(i) == <<"M", "A", "D">>[((i - 1) % 3) + 1]

WorkingCopies ==
    { [i \in 1..n |-> [Status |-> StatusAt(i), Path |-> i]] : n \in 0..MaxFiles }

Bump(n, max) == IF n < max THEN n + 1 ELSE n

\* The process ends: os.Exit(code), or the return from main.
Exit(code, kind) ==
    /\ mpc' = "exited"
    /\ exitCode' = code
    /\ exitKind' = kind

\* An external command that fails: ctx was done before it started, or is done
\* meanwhile (the command is killed), or the command fails by itself.  The
\* caller reports "Interrupted" when ctx.Err() is set, else its own message.
FailedCall(kind) ==
    \E c \in {canceled, TRUE} :
        /\ canceled' = c
        /\ Exit(1, IF c THEN "interrupted" ELSE kind)

InitMain ==
    /\ ExtractIdle
    /\ mpc = "detect"
    /\ autoConfirm \in BOOLEAN
    /\ jjRepo \in BOOLEAN
    /\ hookEnv \in HookEnvs
    /\ jjRepo => hookEnv = NoHooks
    /\ wc \in WorkingCopies
    /\ ~jjRepo => Len(wc) <= MaxGitFiles
    /\ vcs = "unset"
    /\ commitFn = "unset"
    /\ selected = <<>>
    /\ selectedEntries = <<>>
    /\ stdin = <<>>
    /\ eof = FALSE
    /\ rbuf = <<>>
    /\ input = NoLine
    /\ selectErr = "none"
    /\ dropped = 0
    /\ diff = {}
    /\ fileList = <<>>
    /\ stat = {}
    /\ hooksRun = FALSE
    /\ genCalls = 0
    /\ prompt = NoPrompt
    /\ commitMessage = <<>>
    /\ shown = 0
    /\ response = NoLine
    /\ lastEdit = NoEdit
    /\ commitArgs = <<>>
    /\ exitCode = -1
    /\ exitKind = "none"
    /\ allEntries = <<>>
    /\ selectedPaths = {}
    /\ pmessage = <<>>
    /\ disk = [p \in Paths |-> IF p <= Len(wc) THEN DiskOf(wc[p].Status, p) ELSE AbsentFile]
    /\ mode = [p \in Paths |-> ModeOf(disk[p], p)]
    /\ parent = [p \in Paths |-> IF p <= Len(wc) THEN ParentOf(wc[p].Status, p) ELSE AbsentFile]
    /\ pre = disk
    /\ savedFiles = <<>>
    /\ idx = 0
    /\ ppc = "idle"
    /\ perr = NoError
    /\ commits = <<>>
    /\ restoreCalls = <<>>
    /\ attempted = {}
    /\ logged = {}
    /\ manualList = <<>>
    /\ canceled = FALSE

\* The user types a line while the program is at a prompt, or ahead of a
\* prompt while the text generator runs.
UserTypes ==
    /\ mpc \in {"select", "select_read", "generate", "present", "prompt"}
    /\ ~eof
    /\ Len(stdin) < MaxPending
    /\ \E l \in IF stdin # <<>> THEN TypeAhead
                ELSE IF mpc \in {"select", "select_read"} THEN SelectorLines
                ELSE ConfirmLines :
           stdin' = Append(stdin, l)
    /\ UNCHANGED <<extractVars, partialVars, mpc, autoConfirm, jjRepo, hookEnv, wc, vcs,
                   commitFn, selected, selectedEntries, eof, rbuf, input, selectErr, dropped, diff, fileList,
                   stat, hooksRun, genCalls, prompt, commitMessage, shown, response, lastEdit,
                   commitArgs, exitCode, exitKind>>

\* Standard input is closed, after the lines typed so far were read.
CloseStdin ==
    /\ mpc \in {"select", "select_read", "present", "prompt"}
    /\ ~eof
    /\ stdin = <<>>
    /\ eof' = TRUE
    /\ UNCHANGED <<extractVars, partialVars, mpc, autoConfirm, jjRepo, hookEnv, wc, vcs,
                   commitFn, selected, selectedEntries, stdin, rbuf, input, selectErr, dropped, diff, fileList,
                   stat, hooksRun, genCalls, prompt, commitMessage, shown, response, lastEdit,
                   commitArgs, exitCode, exitKind>>

\* A choice of functions that offers the file selection in auto-confirm mode.
Detect_SelectInAuto ==
    /\ mpc = "detect"
    /\ LET v == IF jjRepo /\ ~canceled THEN "jj" ELSE "git"
       IN  /\ vcs' = v
           /\ IF v = "jj"
              THEN mpc' = "summary" /\ commitFn' = commitFn
              ELSE mpc' = "diff" /\ commitFn' = v
    /\ UNCHANGED <<extractVars, partialVars, autoConfirm, jjRepo, hookEnv, wc, selected,
                   selectedEntries, stdin, eof, rbuf, input, selectErr, dropped, diff, fileList, stat,
                   hooksRun, genCalls, prompt, commitMessage, shown, response, lastEdit,
                   commitArgs, exitCode, exitKind>>

\* main.go:165-253 without the file selection: _detectVCS, main.go:104-110,
\* and the choice of the backend's functions.
Detect ==
    /\ mpc = "detect"
    /\ LET v == IF jjRepo /\ ~canceled THEN "jj" ELSE "git"
       IN  /\ vcs' = v
           /\ IF v = "jj" /\ ~autoConfirm
              THEN mpc' = "summary" /\ commitFn' = commitFn
              ELSE mpc' = "diff" /\ commitFn' = v
    /\ UNCHANGED <<extractVars, partialVars, autoConfirm, jjRepo, hookEnv, wc, selected,
                   selectedEntries, stdin, eof, rbuf, input, selectErr, dropped, diff, fileList, stat,
                   hooksRun, genCalls, prompt, commitMessage, shown, response, lastEdit,
                   commitArgs, exitCode, exitKind>>

\* A file-list probe that offers the selection from one changed file on.
Summary_SelectFromOne ==
    /\ mpc = "summary"
    /\ \/ /\ ~canceled
          /\ allEntries' = wc
          /\ IF Len(wc) >= 1
             THEN /\ mpc' = "select"
                  /\ selected' = [i \in 1..Len(wc) |-> TRUE]
                  /\ commitFn' = commitFn
             ELSE /\ mpc' = "diff"
                  /\ commitFn' = "jj"
                  /\ selected' = selected
          /\ UNCHANGED <<exitCode, exitKind, canceled>>
       \/ /\ \E c \in {canceled, TRUE} : canceled' = c
          /\ Exit(1, "filelist_failed")
          /\ UNCHANGED <<allEntries, selected, commitFn>>
    /\ UNCHANGED <<extractVars, selectedPaths, pmessage, disk, mode, parent, pre, savedFiles, idx,
                   ppc, perr, commits, restoreCalls, attempted, logged, manualList,
                   autoConfirm, jjRepo, hookEnv, wc, vcs, selectedEntries, stdin, eof, rbuf, input, selectErr,
                   dropped, diff, fileList, stat, hooksRun, genCalls, prompt, commitMessage, shown,
                   response, lastEdit, commitArgs>>

\* main.go:178-202 and 233-239: jj diff --summary and parseJJSummaryEntries.
\* A failure is reported as "Failed to get file list", ctx done or not.
Summary ==
    /\ mpc = "summary"
    /\ \/ /\ ~canceled
          /\ allEntries' = wc
          /\ IF Len(wc) >= 2
             THEN /\ mpc' = "select"
                  /\ selected' = [i \in 1..Len(wc) |-> TRUE]
                  /\ commitFn' = commitFn
             ELSE /\ mpc' = "diff"
                  /\ commitFn' = "jj"
                  /\ selected' = selected
          /\ UNCHANGED <<exitCode, exitKind, canceled>>
       \/ /\ \E c \in {canceled, TRUE} : canceled' = c
          /\ Exit(1, "filelist_failed")
          /\ UNCHANGED <<allEntries, selected, commitFn>>
    /\ UNCHANGED <<extractVars, selectedPaths, pmessage, disk, mode, parent, pre, savedFiles, idx,
                   ppc, perr, commits, restoreCalls, attempted, logged, manualList,
                   autoConfirm, jjRepo, hookEnv, wc, vcs, selectedEntries, stdin, eof, rbuf, input, selectErr,
                   dropped, diff, fileList, stat, hooksRun, genCalls, prompt, commitMessage, shown,
                   response, lastEdit, commitArgs>>

\* An iteration of the selector that does not look at ctx.
SelectCheck_NoCheck ==
    /\ mpc = "select"
    /\ input' = NoLine
    /\ mpc' = "select_read"
    /\ UNCHANGED <<extractVars, partialVars, autoConfirm, jjRepo, hookEnv, wc, vcs,
                   commitFn, selected, selectedEntries, stdin, eof, rbuf, selectErr,
                   dropped, diff, fileList, stat, hooksRun, genCalls, prompt, commitMessage,
                   shown, response, lastEdit, commitArgs, exitCode, exitKind>>

\* selectJJFiles, main.go:829-847: an iteration starts, the list is displayed
\* and ctx is checked.  The line read is a local of one iteration.
\* With ctx done selectJJFiles returns ctx.Err(), and main, main.go:193-198,
\* reports the interruption.
SelectCheck ==
    /\ mpc = "select"
    /\ input' = NoLine
    /\ IF canceled
       THEN selectErr' = "ctx" /\ Exit(1, "interrupted")
       ELSE mpc' = "select_read" /\ UNCHANGED <<selectErr, exitCode, exitKind>>
    /\ UNCHANGED <<extractVars, partialVars, autoConfirm, jjRepo, hookEnv, wc, vcs,
                   commitFn, selected, selectedEntries, stdin, eof, rbuf, dropped, diff,
                   fileList, stat, hooksRun, genCalls, prompt, commitMessage, shown, response,
                   lastEdit, commitArgs>>

\* An empty line that confirms whatever the mask is.
Confirms_WithoutSelection(cmd, mask) == cmd = <<>>

\* main.go:856-869: the empty line confirms when a file is selected.
Confirms(cmd, mask) == cmd = <<>> /\ \E i \in 1..Len(mask) : mask[i]

\* selectJJFiles, main.go:849-911, and main.go:204-232 when it returns: a line
\* is taken from the reader, which reads k more lines from standard input when
\* it holds none, and the command is applied.
SelectRead ==
    /\ mpc = "select_read"
    /\ \E k \in 0..Len(stdin) :
           /\ k = 0 <=> rbuf # <<>>
           /\ LET buf == rbuf \o SubSeq(stdin, 1, k)
                  cmd == TrimSpace(Head(buf) \o <<"\n">>)
              IN  /\ stdin' = SubSeq(stdin, k + 1, Len(stdin))
                  /\ input' = cmd
                  /\ IF Confirms(cmd, selected)
                     THEN LET result == SelectedOf(allEntries, selected)
                          IN  /\ selectedEntries' = result
                              /\ rbuf' = <<>>
                              /\ dropped' = IF Len(buf) > 1 THEN Bump(dropped, MaxDropped)
                                            ELSE dropped
                              /\ mpc' = "diff"
                              /\ IF Len(result) = Len(allEntries)
                                 THEN commitFn' = "jj" /\ selectedPaths' = selectedPaths
                                 ELSE commitFn' = "jjPartial"
                                      /\ selectedPaths' = PathSet(result)
                              /\ selected' = selected
                     ELSE /\ rbuf' = Tail(buf)
                          /\ mpc' = "select"
                          /\ selected' = IF cmd = <<>> THEN selected
                                         ELSE ApplyCommand(selected, cmd)
                          /\ UNCHANGED <<selectedEntries, dropped, commitFn, selectedPaths>>
    /\ UNCHANGED <<extractVars, allEntries, pmessage, disk, mode, parent, pre, savedFiles, idx,
                   ppc, perr, commits, restoreCalls, attempted, logged, manualList,
                   canceled, autoConfirm, jjRepo, hookEnv, wc, vcs, eof, selectErr, diff,
                   fileList,
                   stat, hooksRun, genCalls, prompt, commitMessage, shown, response, lastEdit,
                   commitArgs, exitCode, exitKind>>

\* selectJJFiles, main.go:849-852, and main.go:193-202: the read fails.
SelectReadFail ==
    /\ mpc = "select_read"
    /\ rbuf = <<>> /\ stdin = <<>> /\ eof
    /\ selectErr' = "read"
    /\ Exit(1, IF canceled THEN "interrupted" ELSE "select_failed")
    /\ UNCHANGED <<extractVars, partialVars, autoConfirm, jjRepo, hookEnv, wc, vcs,
                   commitFn, selected, selectedEntries, stdin, eof, rbuf, input, dropped, diff,
                   fileList, stat, hooksRun, genCalls, prompt, commitMessage, shown, response,
                   lastEdit, commitArgs>>

\* A diff that is that of the whole change whatever was selected.
DiffNow_Whole == ChangedPaths

\* What the diff function selected at main.go:207-252 returns the diff of.
DiffNow ==
    IF commitFn = "jjPartial" THEN ChangedPaths \cap selectedPaths ELSE ChangedPaths

\* A diff after which the pre-commit hooks run for either backend.
GetDiff_HooksForAll ==
    /\ mpc = "diff"
    /\ \/ /\ ~canceled
          /\ diff' = DiffNow
          /\ IF DiffNow = {}
             THEN Exit(0, "noop")
             ELSE /\ mpc' = "precommit"
                  /\ UNCHANGED <<exitCode, exitKind>>
          /\ UNCHANGED canceled
       \/ /\ FailedCall("diff_failed")
          /\ UNCHANGED diff
    /\ UNCHANGED <<extractVars, allEntries, selectedPaths, pmessage, disk, mode, parent, pre,
                   savedFiles, idx, ppc, perr, commits, restoreCalls, attempted, logged,
                   manualList, autoConfirm, jjRepo, hookEnv, wc, vcs, commitFn, selected,
                   selectedEntries, stdin, eof, rbuf, input, selectErr, dropped, fileList, stat, hooksRun,
                   genCalls, prompt, commitMessage, shown, response, lastEdit, commitArgs>>

\* main.go:255-275
GetDiff ==
    /\ mpc = "diff"
    /\ \/ /\ ~canceled
          /\ diff' = DiffNow
          /\ IF DiffNow = {}
             THEN Exit(0, "noop")
             ELSE /\ mpc' = IF vcs = "git" THEN "precommit" ELSE "filelist"
                  /\ UNCHANGED <<exitCode, exitKind>>
          /\ UNCHANGED canceled
       \/ /\ FailedCall("diff_failed")
          /\ UNCHANGED diff
    /\ UNCHANGED <<extractVars, allEntries, selectedPaths, pmessage, disk, mode, parent, pre,
                   savedFiles, idx, ppc, perr, commits, restoreCalls, attempted, logged,
                   manualList, autoConfirm, jjRepo, hookEnv, wc, vcs, commitFn, selected,
                   selectedEntries, stdin, eof, rbuf, input, selectErr, dropped, fileList, stat, hooksRun,
                   genCalls, prompt, commitMessage, shown, response, lastEdit, commitArgs>>

\* main.go:277-289: runPreCommit for Git.  A hook that runs may be killed when
\* ctx is canceled meanwhile; a hook may leave nothing staged.
PreCommit ==
    /\ mpc = "precommit"
    /\ \/ /\ RunPreCommit(hookEnv, canceled) = "nil"
          /\ hooksRun' = HookRuns(hookEnv, canceled)
          /\ disk' = IF HookRuns(hookEnv, canceled) /\ hookEnv.clears THEN parent ELSE disk
          /\ mode' = IF HookRuns(hookEnv, canceled) /\ hookEnv.clears THEN RevertedMode(Paths) ELSE mode
          /\ mpc' = "rediff"
          /\ UNCHANGED <<exitCode, exitKind, canceled>>
       \/ /\ RunPreCommit(hookEnv, canceled) = "error"
          /\ hooksRun' = TRUE
          /\ FailedCall("precommit_failed")
          /\ UNCHANGED <<disk, mode>>
       \/ /\ HookRuns(hookEnv, canceled)
          /\ hooksRun' = TRUE
          /\ canceled' = TRUE
          /\ Exit(1, "interrupted")
          /\ UNCHANGED <<disk, mode>>
    /\ UNCHANGED <<extractVars, allEntries, selectedPaths, pmessage, parent, pre,
                   savedFiles, idx, ppc, perr, commits, restoreCalls, attempted, logged,
                   manualList, autoConfirm, jjRepo, hookEnv, wc, vcs, commitFn, selected,
                   selectedEntries, stdin, eof, rbuf, input, selectErr, dropped, diff, fileList, stat,
                   genCalls, prompt, commitMessage, shown, response, lastEdit, commitArgs>>

\* A second diff whose emptiness is not looked at.
ReDiff_IgnoresEmpty ==
    /\ mpc = "rediff"
    /\ \/ /\ ~canceled
          /\ diff' = DiffNow
          /\ mpc' = "filelist"
          /\ UNCHANGED <<exitCode, exitKind>>
          /\ UNCHANGED canceled
       \/ /\ FailedCall("diff_failed")
          /\ UNCHANGED diff
    /\ UNCHANGED <<extractVars, allEntries, selectedPaths, pmessage, disk, mode, parent, pre,
                   savedFiles, idx, ppc, perr, commits, restoreCalls, attempted, logged,
                   manualList, autoConfirm, jjRepo, hookEnv, wc, vcs, commitFn, selected,
                   selectedEntries, stdin, eof, rbuf, input, selectErr, dropped, fileList, stat, hooksRun,
                   genCalls, prompt, commitMessage, shown, response, lastEdit, commitArgs>>

\* main.go:291-308
ReDiff ==
    /\ mpc = "rediff"
    /\ \/ /\ ~canceled
          /\ diff' = DiffNow
          /\ IF DiffNow = {}
             THEN Exit(0, "noop")
             ELSE mpc' = "filelist" /\ UNCHANGED <<exitCode, exitKind>>
          /\ UNCHANGED canceled
       \/ /\ FailedCall("diff_failed")
          /\ UNCHANGED diff
    /\ UNCHANGED <<extractVars, allEntries, selectedPaths, pmessage, disk, mode, parent, pre,
                   savedFiles, idx, ppc, perr, commits, restoreCalls, attempted, logged,
                   manualList, autoConfirm, jjRepo, hookEnv, wc, vcs, commitFn, selected,
                   selectedEntries, stdin, eof, rbuf, input, selectErr, dropped, fileList, stat, hooksRun,
                   genCalls, prompt, commitMessage, shown, response, lastEdit, commitArgs>>

\* The changed paths in ascending order.
RECURSIVE SortedPaths(_)
SortedPaths(S) ==
    IF S = {} THEN <<>>
    ELSE LET m == CHOOSE p \in S : \A q \in S : p <= q
         IN  <<m>> \o SortedPaths(S \ {m})

\* main.go:311-321.  _getJJFileListForPaths, main.go:929-935, runs no command
\* and cannot fail; the other file lists fail like any command, and a failure
\* with ctx not done is only a warning.
GetFileList ==
    /\ mpc = "filelist"
    /\ \/ /\ commitFn = "jjPartial"
          /\ fileList' = PathsOf(selectedEntries)
          /\ mpc' = "stat"
          /\ UNCHANGED <<exitCode, exitKind, canceled>>
       \/ /\ commitFn # "jjPartial"
          /\ ~canceled
          /\ fileList' = SortedPaths(ChangedPaths)
          /\ mpc' = "stat"
          /\ UNCHANGED <<exitCode, exitKind, canceled>>
       \/ /\ commitFn # "jjPartial"
          /\ fileList' = <<>>
          /\ \E c \in {canceled, TRUE} :
                 /\ canceled' = c
                 /\ IF c THEN Exit(1, "interrupted")
                    ELSE mpc' = "stat" /\ UNCHANGED <<exitCode, exitKind>>
    /\ UNCHANGED <<extractVars, allEntries, selectedPaths, pmessage, disk, mode, parent, pre,
                   savedFiles, idx, ppc, perr, commits, restoreCalls, attempted, logged,
                   manualList, autoConfirm, jjRepo, hookEnv, wc, vcs, commitFn, selected,
                   selectedEntries, stdin, eof, rbuf, input, selectErr, dropped, diff, stat, hooksRun,
                   genCalls, prompt, commitMessage, shown, response, lastEdit, commitArgs>>

\* main.go:323-332
GetStat ==
    /\ mpc = "stat"
    /\ \/ /\ ~canceled
          /\ stat' = DiffNow
          /\ mpc' = "generate"
          /\ UNCHANGED <<exitCode, exitKind, canceled>>
       \/ /\ stat' = {}
          /\ \E c \in {canceled, TRUE} :
                 /\ canceled' = c
                 /\ IF c THEN Exit(1, "interrupted")
                    ELSE mpc' = "generate" /\ UNCHANGED <<exitCode, exitKind>>
    /\ UNCHANGED <<extractVars, allEntries, selectedPaths, pmessage, disk, mode, parent, pre,
                   savedFiles, idx, ppc, perr, commits, restoreCalls, attempted, logged,
                   manualList, autoConfirm, jjRepo, hookEnv, wc, vcs, commitFn, selected,
                   selectedEntries, stdin, eof, rbuf, input, selectErr, dropped, diff, fileList, hooksRun,
                   genCalls, prompt, commitMessage, shown, response, lastEdit, commitArgs>>

\* main.go:501
maxDiffSize == 50000

\* The text appended to a diff that was cut, main.go:505.
TruncationMarker == "\n...(diff truncated for size)..."

\* The sentence of main.go:511 that tells the generator that the diff is cut.
TruncationNote == "truncation note"

\* The bytes of the diff of one path: the first path's hunk is one byte short
\* of maxDiffSize, every other hunk is a single byte, so that the diffs of a
\* run are shorter than, as long as and longer than maxDiffSize.
DiffSize(p) == IF p = 1 THEN maxDiffSize - 1 ELSE 1

\* A diff as a string of bytes, written as its runs: count times the byte of
\* the path's hunk, for the changed paths in order.
DiffText(S) ==
    LET ps == SortedPaths(S)
    IN  [i \in 1..Len(ps) |-> [byte |-> ps[i], count |-> DiffSize(ps[i])]]

\* len(s) of a string given by its runs.
RECURSIVE TextLen(_)
TextLen(t) == IF t = <<>> THEN 0 ELSE Head(t).count + TextLen(Tail(t))

\* s[:n] of a string given by its runs, for n <= len(s).
RECURSIVE Take(_, _)
Take(t, n) ==
    IF n = 0 \/ t = <<>> THEN <<>>
    ELSE IF Head(t).count <= n
         THEN <<Head(t)>> \o Take(Tail(t), n - Head(t).count)
         ELSE <<[byte |-> Head(t).byte, count |-> n]>>

\* A limit that also cuts a diff of exactly maxDiffSize bytes.
Truncate_AtLimit(d) ==
    IF TextLen(d) >= maxDiffSize
    THEN [truncatedDiff |-> [head |-> Take(d, maxDiffSize), tail |-> TruncationMarker],
          wasTruncated |-> TRUE]
    ELSE [truncatedDiff |-> [head |-> d, tail |-> ""], wasTruncated |-> FALSE]

\* main.go:502-507: truncatedDiff and wasTruncated.
Truncate(d) ==
    IF TextLen(d) > maxDiffSize
    THEN [truncatedDiff |-> [head |-> Take(d, maxDiffSize), tail |-> TruncationMarker],
          wasTruncated |-> TRUE]
    ELSE [truncatedDiff |-> [head |-> d, tail |-> ""], wasTruncated |-> FALSE]

\* main.go:509-575: the prompt embeds the file list, the stat, the note and
\* the diff.
BuildPrompt(d, fl, st) ==
    LET t == Truncate(d)
    IN  [fileList |-> fl, stat |-> st,
         note |-> IF t.wasTruncated THEN TruncationNote ELSE "",
         diff |-> t.truncatedDiff]

\* A generation that is tried again when it fails.
Generate_RetryOnFailure ==
    /\ mpc = "generate"
    /\ genCalls' = genCalls + 1
    /\ prompt' = BuildPrompt(DiffText(diff), fileList, stat)
    /\ \/ /\ ~canceled
          /\ \E r \in RawOutputs : commitMessage' = extractCommitMessage(r)
          /\ mpc' = "check"
          /\ UNCHANGED <<exitCode, exitKind, canceled>>
       \/ /\ genCalls < 2
          /\ UNCHANGED <<mpc, exitCode, exitKind, canceled, commitMessage>>
    /\ UNCHANGED <<extractVars, allEntries, selectedPaths, pmessage, disk, mode, parent, pre,
                   savedFiles, idx, ppc, perr, commits, restoreCalls, attempted, logged,
                   manualList, autoConfirm, jjRepo, hookEnv, wc, vcs, commitFn, selected,
                   selectedEntries, stdin, eof, rbuf, input, selectErr, dropped, diff, fileList, stat,
                   hooksRun, shown, response, lastEdit, commitArgs>>

\* main.go:334-344 with generateCommitMessage, main.go:499-580.
Generate ==
    /\ mpc = "generate"
    /\ genCalls' = genCalls + 1
    /\ prompt' = BuildPrompt(DiffText(diff), fileList, stat)
    /\ \/ /\ ~canceled
          /\ \E r \in RawOutputs : commitMessage' = extractCommitMessage(r)
          /\ mpc' = "check"
          /\ UNCHANGED <<exitCode, exitKind, canceled>>
       \/ /\ FailedCall("generate_failed")
          /\ UNCHANGED commitMessage
    /\ UNCHANGED <<extractVars, allEntries, selectedPaths, pmessage, disk, mode, parent, pre,
                   savedFiles, idx, ppc, perr, commits, restoreCalls, attempted, logged,
                   manualList, autoConfirm, jjRepo, hookEnv, wc, vcs, commitFn, selected,
                   selectedEntries, stdin, eof, rbuf, input, selectErr, dropped, diff, fileList, stat,
                   hooksRun, shown, response, lastEdit, commitArgs>>

\* A test for the error phrases that tells upper case from lower case.
IsErrorResponse_CaseSensitive(msg) ==
    \/ Contains(msg, Chars("execution error"))
    \/ Contains(msg, Chars("error:"))
    \/ Contains(msg, Chars("failed"))

\* The test of main.go:354-357.
IsErrorResponse(msg) ==
    LET lowerMsg == ToLower(msg)
    IN  \/ Contains(lowerMsg, Chars("execution error"))
        \/ Contains(lowerMsg, Chars("error:"))
        \/ Contains(lowerMsg, Chars("failed"))

\* main.go:346-365
CheckMessage ==
    /\ mpc = "check"
    /\ IF commitMessage = <<>> THEN Exit(1, "empty_message")
       ELSE IF IsErrorResponse(commitMessage) THEN Exit(1, "ai_error")
       ELSE /\ mpc' = IF autoConfirm THEN "auto" ELSE "present"
            /\ UNCHANGED <<exitCode, exitKind>>
    /\ UNCHANGED <<extractVars, partialVars, autoConfirm, jjRepo, hookEnv, wc, vcs,
                   commitFn, selected, selectedEntries, stdin, eof, rbuf, input, selectErr, dropped, diff,
                   fileList, stat, hooksRun, genCalls, prompt, commitMessage, shown, response,
                   lastEdit, commitArgs>>

\* commitFn(ctx, commitMessage) is called, main.go:373 and 412.
CallCommit ==
    /\ commitArgs' = Append(commitArgs, commitMessage)
    /\ pmessage' = commitMessage
    /\ pre' = disk
    /\ ppc' = IF commitFn = "jjPartial" THEN "entry" ELSE "plain"
    /\ mpc' = "committing"

\* main.go:367-373: the message is displayed and the commit function called.
AutoCommit ==
    /\ mpc = "auto"
    /\ shown' = Bump(shown, MaxShown)
    /\ CallCommit
    /\ UNCHANGED <<extractVars, allEntries, selectedPaths, disk, mode, parent, savedFiles, idx,
                   perr, commits, restoreCalls, attempted, logged, manualList, canceled,
                   autoConfirm, jjRepo, hookEnv, wc, vcs, commitFn, selected,
                   selectedEntries, stdin, eof, rbuf, input, selectErr, dropped, diff, fileList, stat,
                   hooksRun, genCalls, prompt, commitMessage, response, lastEdit, exitCode,
                   exitKind>>

\* A display that gives up once the message was displayed MaxShown times.
Present_Limited ==
    /\ mpc = "present"
    /\ shown' = Bump(shown, MaxShown)
    /\ response' = NoLine
    /\ lastEdit' = NoEdit
    /\ IF shown = MaxShown
       THEN Exit(1, "too_many")
       ELSE mpc' = "prompt" /\ UNCHANGED <<exitCode, exitKind>>
    /\ UNCHANGED <<extractVars, partialVars, autoConfirm, jjRepo, hookEnv, wc, vcs,
                   commitFn, selected, selectedEntries, stdin, eof, rbuf, input, selectErr, dropped, diff,
                   fileList, stat, hooksRun, genCalls, prompt, commitMessage, commitArgs>>

\* main.go:387-398: an iteration starts, the message and the prompt are
\* displayed.  The response and the editor's result are locals of one
\* iteration.
Present ==
    /\ mpc = "present"
    /\ shown' = Bump(shown, MaxShown)
    /\ response' = NoLine
    /\ lastEdit' = NoEdit
    /\ mpc' = "prompt"
    /\ UNCHANGED <<extractVars, partialVars, autoConfirm, jjRepo, hookEnv, wc, vcs,
                   commitFn, selected, selectedEntries, stdin, eof, rbuf, input, selectErr, dropped, diff,
                   fileList, stat, hooksRun, genCalls, prompt, commitMessage, commitArgs,
                   exitCode, exitKind>>

\* main.go:408: the response as the switch sees it.
Normalize(line) == TrimSpace(ToLower(line \o <<"\n">>))

\* A switch whose default case refuses.
Decision_DefaultCancel(r) ==
    IF r \in {Chars("y"), Chars("yes")} THEN "commit"
    ELSE IF r \in {Chars("e"), Chars("edit")} THEN "edit"
    ELSE "cancel"

\* A switch in which the empty response is not a refusal.
Decision_EmptyInvalid(r) ==
    IF r \in {Chars("y"), Chars("yes")} THEN "commit"
    ELSE IF r \in {Chars("e"), Chars("edit")} THEN "edit"
    ELSE IF r \in {Chars("n"), Chars("no")} THEN "cancel"
    ELSE "invalid"

\* The switch of main.go:410-449 on the normalised response.
Decision(r) ==
    IF r \in {Chars("y"), Chars("yes")} THEN "commit"
    ELSE IF r \in {Chars("e"), Chars("edit")} THEN "edit"
    ELSE IF r \in {Chars("n"), Chars("no"), <<>>} THEN "cancel"
    ELSE "invalid"

\* main.go:400-449 without the edit: a new bufio.Reader reads k lines from
\* standard input and gives the first; the switch acts on it.
PromptRead ==
    /\ mpc = "prompt"
    /\ \E k \in 1..Len(stdin) :
           /\ stdin' = SubSeq(stdin, k + 1, Len(stdin))
           /\ dropped' = IF k > 1 THEN Bump(dropped, MaxDropped) ELSE dropped
    /\ response' = Head(stdin)
    /\ LET d == Decision(Normalize(Head(stdin)))
       IN  IF d = "commit"
           THEN /\ CallCommit
                /\ UNCHANGED <<exitCode, exitKind>>
           ELSE /\ IF d = "edit"
                   THEN mpc' = "editing" /\ UNCHANGED <<exitCode, exitKind>>
                   ELSE IF d = "cancel"
                   THEN Exit(0, "canceled")
                   ELSE mpc' = "present" /\ UNCHANGED <<exitCode, exitKind>>
                /\ UNCHANGED <<commitArgs, pmessage, pre, ppc>>
    /\ UNCHANGED <<extractVars, allEntries, selectedPaths, disk, mode, parent, savedFiles, idx,
                   perr, commits, restoreCalls, attempted, logged, manualList, canceled,
                   autoConfirm, jjRepo, hookEnv, wc, vcs, commitFn, selected,
                   selectedEntries, eof, rbuf, input, selectErr, diff, fileList, stat, hooksRun, genCalls, prompt,
                   commitMessage, shown, lastEdit>>

\* main.go:401-406: the read fails.
PromptReadFail ==
    /\ mpc = "prompt"
    /\ stdin = <<>> /\ eof
    /\ Exit(1, "read_failed")
    /\ UNCHANGED <<extractVars, partialVars, autoConfirm, jjRepo, hookEnv, wc, vcs,
                   commitFn, selected, selectedEntries, stdin, eof, rbuf, input, selectErr, dropped, diff,
                   fileList, stat, hooksRun, genCalls, prompt, commitMessage, shown, response,
                   lastEdit, commitArgs>>

\* An edit whose result never replaces the message.
AfterEdit_NeverReplace(current, editedMessage) == current

\* An edit whose result always replaces the message.
AfterEdit_AlwaysReplace(current, editedMessage) == editedMessage

\* main.go:435-441: the message after an edit that succeeded.
AfterEdit(current, editedMessage) ==
    IF editedMessage = <<>> THEN current ELSE editedMessage

\* The places where editMessageInEditor returns an error: os.CreateTemp
\* (main.go:591-594), WriteString (602-606), Close (607-609), the editor's
\* cmd.Run (617-619), os.ReadFile (623-626).
EditFailures == {"create", "write", "close", "run", "read"}

\* A clean-up that runs only when the edit succeeded.
DeferredRemove_OnlyOnSuccess(exit) ==
    IF exit = "create" THEN "none"
    ELSE IF exit = "ok" THEN "removed" ELSE "present"

\* The temporary file when editMessageInEditor returns by the given exit.  The
\* function deferred at main.go:596-599 is registered once os.CreateTemp has
\* succeeded and runs os.Remove(tmpfileName) on every later return; the
\* removal's error is discarded, and a file the editor has already deleted is
\* absent just the same.
DeferredRemove(exit) ==
    IF exit = "create" THEN "none" ELSE "removed"

\* An edit after which the message is checked again.
EditMessage_Rechecked ==
    /\ mpc = "editing"
    /\ \/ /\ ~canceled
          /\ \E content \in EditorContents :
                 LET editedMessage == TrimSpace(content)
                 IN  /\ lastEdit' = [ok |-> TRUE, text |-> editedMessage, done |-> TRUE,
                                     exit |-> "ok", tmp |-> DeferredRemove("ok")]
                     /\ commitMessage' = AfterEdit(commitMessage, editedMessage)
          /\ mpc' = "check"
          /\ UNCHANGED <<exitCode, exitKind, canceled>>
       \/ /\ \E exit \in EditFailures :
                 lastEdit' = [ok |-> FALSE, text |-> <<>>, done |-> TRUE,
                              exit |-> exit, tmp |-> DeferredRemove(exit)]
          /\ \E c \in {canceled, TRUE} :
                 /\ canceled' = c
                 /\ IF c THEN Exit(1, "interrupted")
                    ELSE mpc' = "present" /\ UNCHANGED <<exitCode, exitKind>>
          /\ UNCHANGED commitMessage
    /\ UNCHANGED <<extractVars, allEntries, selectedPaths, pmessage, disk, mode, parent, pre,
                   savedFiles, idx, ppc, perr, commits, restoreCalls, attempted, logged,
                   manualList, autoConfirm, jjRepo, hookEnv, wc, vcs, commitFn, selected,
                   selectedEntries, stdin, eof, rbuf, input, selectErr, dropped, diff, fileList, stat,
                   hooksRun, genCalls, prompt, shown, response, commitArgs>>

\* main.go:424-442 with editMessageInEditor, main.go:583-629: the editor's
\* result is trimmed; an error or an empty result keeps the message.
EditMessage ==
    /\ mpc = "editing"
    /\ \/ /\ ~canceled
          /\ \E content \in EditorContents :
                 LET editedMessage == TrimSpace(content)
                 IN  /\ lastEdit' = [ok |-> TRUE, text |-> editedMessage, done |-> TRUE,
                                     exit |-> "ok", tmp |-> DeferredRemove("ok")]
                     /\ commitMessage' = AfterEdit(commitMessage, editedMessage)
          /\ mpc' = "present"
          /\ UNCHANGED <<exitCode, exitKind, canceled>>
       \/ /\ \E exit \in EditFailures :
                 lastEdit' = [ok |-> FALSE, text |-> <<>>, done |-> TRUE,
                              exit |-> exit, tmp |-> DeferredRemove(exit)]
          /\ \E c \in {canceled, TRUE} :
                 /\ canceled' = c
                 /\ IF c THEN Exit(1, "interrupted")
                    ELSE mpc' = "present" /\ UNCHANGED <<exitCode, exitKind>>
          /\ UNCHANGED commitMessage
    /\ UNCHANGED <<extractVars, allEntries, selectedPaths, pmessage, disk, mode, parent, pre,
                   savedFiles, idx, ppc, perr, commits, restoreCalls, attempted, logged,
                   manualList, autoConfirm, jjRepo, hookEnv, wc, vcs, commitFn, selected,
                   selectedEntries, stdin, eof, rbuf, input, selectErr, dropped, diff, fileList, stat,
                   hooksRun, genCalls, prompt, shown, response, commitArgs>>

\* A return of the commit function after which a failure prompts again.
CommitReturn_RepromptOnFailure ==
    /\ mpc = "committing"
    /\ ppc = "returned"
    /\ IF perr.kind = "nil" THEN Exit(0, "done")
       ELSE mpc' = "present" /\ UNCHANGED <<exitCode, exitKind>>
    /\ UNCHANGED <<extractVars, partialVars, autoConfirm, jjRepo, hookEnv, wc, vcs,
                   commitFn, selected, selectedEntries, stdin, eof, rbuf, input, selectErr, dropped, diff,
                   fileList, stat, hooksRun, genCalls, prompt, commitMessage, shown, response,
                   lastEdit, commitArgs>>

\* main.go:373-384 and 412-423: the commit function has returned.
CommitReturn ==
    /\ mpc = "committing"
    /\ ppc = "returned"
    /\ IF perr.kind = "nil" THEN Exit(0, "done")
       ELSE IF canceled THEN Exit(1, "interrupted")
       ELSE Exit(1, "commit_failed")
    /\ UNCHANGED <<extractVars, partialVars, autoConfirm, jjRepo, hookEnv, wc, vcs,
                   commitFn, selected, selectedEntries, stdin, eof, rbuf, input, selectErr, dropped, diff,
                   fileList, stat, hooksRun, genCalls, prompt, commitMessage, shown, response,
                   lastEdit, commitArgs>>

MainStep ==
    \/ Detect \/ Summary \/ SelectCheck \/ SelectRead \/ SelectReadFail \/ GetDiff
    \/ PreCommit \/ ReDiff \/ GetFileList \/ GetStat \/ Generate \/ CheckMessage
    \/ AutoCommit \/ Present \/ PromptRead \/ PromptReadFail \/ EditMessage
    \/ CommitReturn

Next == MainStep \/ PartialStep \/ Signal \/ UserTypes \/ CloseStdin

Spec == InitMain /\ [][Next]_vars

----------------------------------------------------------------------------
(* Claims about a run of main                                              *)

\* The confirmation loop, or the auto-confirm commit, holds a message.
HoldsMessage == mpc \in {"auto", "present", "prompt", "editing", "committing"}

\* C1: in every run the commit operation is never invoked with an empty
\* message: every message passed to the commit function, every message of a
\* revision made and the message the confirmation loop holds are non-empty,
\* also after an edit whose result is empty.
C1_NeverEmptyCommit ==
    /\ \A i \in 1..Len(commitArgs) : commitArgs[i] # <<>>
    /\ \A i \in 1..Len(commits) : commits[i].message # <<>>
    /\ HoldsMessage => commitMessage # <<>>
    /\ ppc \notin {"idle", "returned"} => pmessage # <<>>

\* An edit has just given an empty result and the message is kept.
C1_Witness ==
    /\ mpc = "present"
    /\ lastEdit.done /\ lastEdit.ok /\ lastEdit.text = <<>>
    /\ commitMessage # <<>>

\* C10: once the confirmation loop has read a line that after trimming and
\* lower-casing is n, no or empty, the run is Canceled: the process has exited
\* with status 0 and the commit operation was not invoked.
C10_RefusalCancels ==
    (response # NoLine /\ Normalize(response) \in {Chars("n"), Chars("no"), <<>>})
        => /\ mpc = "exited"
           /\ exitCode = 0
           /\ exitKind = "canceled"
           /\ commitArgs = <<>>
           /\ commits = <<>>

\* The loop has prompted twice and " N " was answered.
C10_Witness ==
    /\ response = Chars(" N ")
    /\ shown = MaxShown
    /\ mpc = "exited"
    /\ exitCode = 0

\* The lines the switch of the confirmation loop knows, normalised.
KnownResponses ==
    { Chars("y"), Chars("yes"), Chars("n"), Chars("no"), Chars("e"), Chars("edit"), <<>> }

\* C11: when the confirmation loop reads a line that is none of y, yes, n, no,
\* e, edit or empty, the message is unchanged, neither the commit function nor
\* the editor is called, and the loop is back at the display of the message,
\* from where the only step of the program is to prompt again.
C11_InvalidReprompts ==
    [][ /\ (mpc = "prompt" /\ mpc' # "prompt" /\ stdin # <<>>
               /\ Normalize(Head(stdin)) \notin KnownResponses)
            => /\ mpc' = "present"
               /\ commitMessage' = commitMessage
               /\ commitArgs' = commitArgs
               /\ commits' = commits
               /\ ppc' = ppc
               /\ lastEdit' = lastEdit
               /\ disk' = disk
               /\ exitCode' = exitCode
        /\ (mpc = "present" /\ mpc' # "present")
            => mpc' = "prompt" /\ commitMessage' = commitMessage
      ]_vars

\* "x" was answered and the loop is about to prompt again.
C11_Witness ==
    /\ mpc = "present"
    /\ response = Chars("x")
    /\ commitArgs = <<>>
    /\ lastEdit = NoEdit
    /\ shown >= 1

\* C12: when the confirmation loop reads a line that after trimming and
\* lower-casing is y or yes, the commit function is called with exactly the
\* current message; when the commit function returns, the process ends, with
\* status 0 if it returned nil and with a non-zero status otherwise, and the
\* message is not displayed again.  The commit function is called at most
\* once and every revision made carries the message it was called with.
C12_YesCommitsCurrent ==
    [][ /\ (mpc = "prompt" /\ mpc' # "prompt" /\ stdin # <<>>
               /\ Normalize(Head(stdin)) \in {Chars("y"), Chars("yes")})
            => /\ mpc' = "committing"
               /\ commitArgs' = Append(commitArgs, commitMessage)
               /\ pmessage' = commitMessage
               /\ ppc' \in {"entry", "plain"}
        /\ (mpc = "committing" /\ mpc' # "committing")
            => /\ ppc = "returned"
               /\ mpc' = "exited"
               /\ shown' = shown
               /\ commitArgs' = commitArgs
               /\ IF perr.kind = "nil" THEN exitCode' = 0 ELSE exitCode' > 0
        /\ Len(commitArgs') <= 1
        /\ \A i \in 1..Len(commits') : commits'[i].message = commitArgs'[1]
      ]_vars

\* "Yes" was answered to an edited message and the commit failed.
C12_Witness ==
    /\ mpc = "exited"
    /\ response = Chars("Yes")
    /\ commitArgs = <<Chars("fix: b")>>
    /\ exitKind = "commit_failed"
    /\ exitCode = 1

\* The editor's result of this step is a success with a non-empty text.
EditedNonEmpty == lastEdit'.ok /\ lastEdit'.text # <<>>

\* C13 as stated: after an e or edit input the loop always returns to the
\* display of the message, with the editor's non-empty result as the message,
\* or with the previous message when the editor failed or gave an empty result.
C13_EditReturnsToPresenting ==
    [][ (mpc = "editing" /\ mpc' # "editing")
            => /\ mpc' = "present"
               /\ commitMessage' = IF EditedNonEmpty THEN lastEdit'.text ELSE commitMessage
      ]_vars

\* C13 amended: an e or edit input calls the editor on the current message.
\* A non-empty result becomes the message and an empty result or a failure
\* keeps the message, the loop returning to the display in both cases, unless
\* the editor failed and the cancellation signal has fired: then the process
\* exits with status 1 as interrupted, nothing having been committed.
C13_EditUnlessInterrupted ==
    [][ /\ (mpc = "prompt" /\ mpc' # "prompt" /\ stdin # <<>>
               /\ Normalize(Head(stdin)) \in {Chars("e"), Chars("edit")})
            => mpc' = "editing" /\ commitMessage' = commitMessage
        /\ (mpc = "editing" /\ mpc' # "editing")
            => /\ lastEdit'.done
               /\ commitMessage' = IF EditedNonEmpty THEN lastEdit'.text ELSE commitMessage
               /\ commitArgs' = commitArgs
               /\ IF ~lastEdit'.ok /\ canceled'
                  THEN mpc' = "exited" /\ exitCode' = 1 /\ exitKind' = "interrupted"
                  ELSE mpc' = "present"
      ]_vars

\* The editor was killed by the signal and the run ended as interrupted.
C13_Witness ==
    /\ mpc = "exited"
    /\ exitKind = "interrupted"
    /\ lastEdit.done /\ ~lastEdit.ok
    /\ Normalize(response) = Chars("edit")
    /\ commitArgs = <<>>

\* The confirmation loop is running: it displays, reads, edits, or waits for
\* the commit function it called.
InLoop ==
    \/ mpc \in {"present", "prompt", "editing"}
    \/ mpc = "committing" /\ ~autoConfirm

\* C14 as stated: the confirmation loop ends only as Done, as Canceled or
\* with a failure to read the input.
C14_EndsOnlyDoneCanceledRead ==
    [][ (InLoop /\ mpc' = "exited") => exitKind' \in {"done", "canceled", "read_failed"} ]_vars

\* C14 amended: the confirmation loop ends only as Done (the commit function
\* returned nil), as Canceled (n, no or empty was read), with a failure to
\* read the input, with a failure of the commit function, or with a failure
\* of the editor after the cancellation signal has fired; the display of the
\* message never ends it, however often the message has been displayed.
C14_EndsOnlyListed ==
    [][ (InLoop /\ mpc' = "exited")
            => \/ /\ mpc = "committing"
                  /\ IF perr.kind = "nil"
                     THEN exitKind' = "done" /\ exitCode' = 0
                     ELSE exitKind' \in {"commit_failed", "interrupted"} /\ exitCode' = 1
               \/ /\ mpc = "prompt"
                  /\ stdin # <<>>
                  /\ Normalize(Head(stdin)) \in {Chars("n"), Chars("no"), <<>>}
                  /\ exitKind' = "canceled" /\ exitCode' = 0
               \/ /\ mpc = "prompt"
                  /\ stdin = <<>> /\ eof
                  /\ exitKind' = "read_failed" /\ exitCode' = 1
               \/ /\ mpc = "editing"
                  /\ canceled'
                  /\ exitKind' = "interrupted" /\ exitCode' = 1
      ]_vars

\* The message was displayed as often as is counted and the commit failed.
C14_Witness ==
    /\ mpc = "exited"
    /\ ~autoConfirm
    /\ shown = MaxShown
    /\ exitKind = "commit_failed"
    /\ vcs = "git"

\* What holds of an auto-confirm run in every state: it is at no point where
\* a line is read or edited, has read nothing, and has called the commit
\* function only after one display and with the message generated.
AutoRunState ==
    /\ mpc \notin {"summary", "select", "select_read", "present", "prompt", "editing"}
    /\ response = NoLine
    /\ rbuf = <<>>
    /\ input = NoLine
    /\ selectErr = "none"
    /\ dropped = 0
    /\ lastEdit = NoEdit
    /\ shown <= 1
    /\ shown = 1 <=> commitArgs # <<>>
    /\ commitArgs # <<>> => commitArgs = <<commitMessage>>
    /\ mpc = "committing" => shown = 1

\* C15: in auto-confirm mode the generated message is displayed exactly once,
\* in the step that calls the commit function with that message, and no line
\* of user input is ever read: lines the user has typed stay unread.
C15_AutoConfirmReadsNothing ==
    [][ autoConfirm
            => /\ AutoRunState'
               /\ Len(stdin') >= Len(stdin)
               /\ SubSeq(stdin', 1, Len(stdin)) = stdin
               /\ (mpc = "auto" /\ mpc' # "auto")
                      => /\ mpc' = "committing"
                         /\ shown' = 1
                         /\ commitArgs' = <<commitMessage>>
                         /\ commitMessage' = commitMessage
      ]_vars

\* An auto-confirm run in a Jujutsu repository has committed; a line typed
\* meanwhile is still unread.
C15_Witness ==
    /\ autoConfirm
    /\ vcs = "jj"
    /\ mpc = "exited"
    /\ exitKind = "done"
    /\ shown = 1
    /\ stdin # <<>>

----------------------------------------------------------------------------
(* Claims about the file selector, checked under Spec                      *)

\* A token that is a number: an optional sign and then only digits.
IsNumber(tok) ==
    LET body == IF tok # <<>> /\ Head(tok) \in {"+", "-"} THEN Tail(tok) ELSE tok
    IN  body # <<>> /\ \A i \in 1..Len(body) : IsDigit(body[i])

\* The number a token that is a number denotes.
NumberOf(tok) ==
    IF Head(tok) = "-" THEN 0 - Decimal(Tail(tok))
    ELSE IF Head(tok) = "+" THEN Decimal(Tail(tok))
    ELSE Decimal(tok)

\* A token that is a valid 1-based index of a mask.
IsValidIndex(mask, tok) ==
    IsNumber(tok) /\ NumberOf(tok) >= 1 /\ NumberOf(tok) <= Len(mask)

\* How often a token denoting index i occurs among the tokens.
RECURSIVE Occurrences(_, _, _)
Occurrences(mask, toks, i) ==
    IF toks = <<>> THEN 0
    ELSE (IF IsValidIndex(mask, Head(toks)) /\ NumberOf(Head(toks)) = i THEN 1 ELSE 0)
             + Occurrences(mask, Tail(toks), i)

\* The mask after a command as the selector is described: a sets every bit, n
\* clears every bit, an index list flips each bit once per occurrence of its
\* valid index.
MaskAfter(mask, cmd) ==
    IF cmd = Chars("a") THEN [i \in 1..Len(mask) |-> TRUE]
    ELSE IF cmd = Chars("n") THEN [i \in 1..Len(mask) |-> FALSE]
    ELSE [i \in 1..Len(mask) |->
             IF Occurrences(mask, Fields(cmd), i) % 2 = 1 THEN ~mask[i] ELSE mask[i]]

\* The entry of a mask bit is selected.
IsMarked(entry) == selected[entry.Path]

\* The line the selector reads in this step, trimmed.
SelectorInput == TrimSpace(Head(rbuf \o stdin) \o <<"\n">>)

\* The selector reads a line and applies it in this step.
SelectorReads == mpc = "select_read" /\ mpc' \in {"select", "diff"}

\* C16: the mask starts all true; each command the selector reads updates it
\* as described (a sets, n clears, an index list flips each valid 1-based
\* index once per occurrence and nothing else); and the confirming empty line
\* returns exactly the entries whose bit is true, in their original order.
C16_SelectionFollowsCommands ==
    [][ /\ (mpc = "summary" /\ mpc' = "select")
            => selected' = [i \in 1..Len(allEntries') |-> TRUE]
        /\ SelectorReads
            => IF mpc' = "diff"
               THEN /\ SelectorInput = <<>>
                    /\ selectedEntries' = SelectSeq(allEntries, IsMarked)
                    /\ selected' = selected
               ELSE /\ selected' = IF SelectorInput = <<>> THEN selected
                                   ELSE MaskAfter(selected, SelectorInput)
      ]_vars

\* No bit of the mask is set.
NoneSelected == \A i \in 1..Len(selected) : ~selected[i]

\* C17: the selector never returns an empty selection: an empty line read
\* while no file is selected leaves the mask unchanged, returns nothing and
\* leads to another prompt; whenever the selector returns, its result holds an
\* entry, and a run that has passed the selector holds a non-empty selection.
C17_NeverReturnsEmpty ==
    [][ /\ (SelectorReads /\ SelectorInput = <<>> /\ NoneSelected)
            => /\ mpc' = "select"
               /\ selected' = selected
               /\ selectedEntries' = selectedEntries
               /\ commitFn' = commitFn
        /\ (SelectorReads /\ mpc' = "diff") => selectedEntries' # <<>>
        /\ commitFn' = "jjPartial" => selectedEntries' # <<>> /\ selectedPaths' # {}
      ]_vars

\* The empty line was read while no file was selected.
C17_Witness ==
    /\ mpc = "select"
    /\ input = <<>>
    /\ NoneSelected
    /\ selectedEntries = <<>>

\* The mask after the tokens of an index command, taken one by one: a token
\* that is a valid index flips its bit, any other token changes nothing.
RECURSIVE FlipValid(_, _)
FlipValid(mask, toks) ==
    IF toks = <<>> THEN mask
    ELSE FlipValid(IF IsValidIndex(mask, Head(toks))
                   THEN [mask EXCEPT ![NumberOf(Head(toks))] = ~mask[NumberOf(Head(toks))]]
                   ELSE mask,
                   Tail(toks))

\* C18: in an index command of the selector, a token that is out of range or
\* is not a number leaves the mask unchanged, and the other tokens of the
\* command are applied: the mask after the command is the mask with the bits
\* of the valid tokens flipped in turn.
C18_InvalidTokensSkipped ==
    [][ (SelectorReads /\ SelectorInput \notin {<<>>, Chars("a"), Chars("n")})
            => /\ mpc' = "select"
               /\ selected' = FlipValid(selected, Fields(SelectorInput))
      ]_vars

\* C19: at each iteration of the selector, if the cancellation signal has
\* fired when ctx is checked, selectJJFiles returns at once with the
\* cancellation error, which is not the error of a failed read: no line is
\* read, the mask is not changed, no selection is returned, and the run ends
\* as interrupted.  A failed read returns the other error.
C19_SelectorAbortsOnCancel ==
    [][ /\ (mpc = "select" /\ canceled /\ mpc' # "select")
            => /\ mpc' = "exited"
               /\ selectErr' = "ctx"
               /\ exitKind' = "interrupted" /\ exitCode' = 1
               /\ stdin' = stdin /\ rbuf' = rbuf
               /\ selected' = selected
               /\ selectedEntries' = <<>>
               /\ commitFn' = "unset"
        /\ (mpc = "select_read" /\ mpc' = "exited")
            => selectErr' = "read" /\ selectedEntries' = <<>>
        /\ selectErr' # "none" => mpc' = "exited" /\ commitArgs' = <<>>
      ]_vars

\* The signal fired after a command was applied; the next iteration returned
\* the cancellation error with a typed line left unread.
C19_Witness ==
    /\ mpc = "exited"
    /\ selectErr = "ctx"
    /\ \E i \in 1..Len(selected) : ~selected[i]
    /\ stdin # <<>>

\* The selector is running.
InSelector == mpc \in {"select", "select_read"}

\* C20: while the selector runs, the mask has exactly as many entries as the
\* entry list and holds only booleans, and every index the selector writes for
\* a token of an index command lies inside the mask.
C20_MaskMatchesEntries ==
    [][ /\ InSelector'
            => /\ Len(selected') = Len(allEntries')
               /\ \A i \in 1..Len(selected') : selected'[i] \in BOOLEAN
        /\ SelectorReads
            => \A t \in 1..Len(Fields(SelectorInput)) :
                   SelectorInput \notin {Chars("a"), Chars("n")}
                       => WriteIndex(selected, Fields(SelectorInput)[t]) \in 0..Len(allEntries)
      ]_vars

\* The selector has applied a command with out-of-range tokens to the mask of
\* three entries.
C20_Witness ==
    /\ mpc = "select"
    /\ input = Chars("0 9 x 1")
    /\ Len(allEntries) = MaxFiles
    /\ selected = [i \in 1..MaxFiles |-> i # 1]

\* The selector was entered: Summary gave it a mask, it read a line or failed.
SelectorEntered ==
    \/ mpc \in {"select", "select_read"}
    \/ selected # <<>>
    \/ input # NoLine
    \/ selectErr # "none"

\* The functions of the run are chosen and the selector is not to be offered.
SelectorNotOffered ==
    /\ mpc # "idle"
    /\ commitFn # "unset"
    /\ vcs = "git" \/ autoConfirm \/ Len(wc) < 2

\* C25: the file selector is entered only in a Jujutsu run without
\* auto-confirm and with at least 2 changed files; in every other run it is
\* never entered, and the diff, the file list, the stat and the commit are
\* those of the whole change.
C25_SelectorOnlyForJJInteractive ==
    /\ SelectorEntered => vcs = "jj" /\ ~autoConfirm /\ Len(wc) >= 2
    /\ SelectorNotOffered
        => /\ ~SelectorEntered
           /\ commitFn = vcs
           /\ mpc \in {"precommit", "filelist"} => diff = ChangedPaths
           /\ mpc \in {"stat", "generate"}
                => fileList \in {<<>>, SortedPaths(ChangedPaths)}
           /\ mpc = "generate" => stat \in {{}, ChangedPaths}
           /\ savedFiles = <<>> /\ restoreCalls = <<>>
           /\ commits # <<>> => commits[1].paths = PathSet(wc)

\* An interactive Jujutsu run with one changed file committed it whole.
C25_Witness ==
    /\ vcs = "jj"
    /\ ~autoConfirm
    /\ Len(wc) = 1
    /\ exitKind = "done"
    /\ commits # <<>>
    /\ ~SelectorEntered

\* What of a run belongs to the backend detected: the commit function, the
\* pre-commit hooks and the re-diff of Git, the file-list probe, the selector
\* and the partial commit of Jujutsu.
BackendOperations ==
    /\ vcs = "unset" => mpc = "detect" /\ commitFn = "unset" /\ commits = <<>>
    /\ vcs = "jj" => /\ commitFn \in {"unset", "jj", "jjPartial"}
                     /\ commitFn = "unset" => mpc \in {"summary", "select", "select_read", "exited"}
                     /\ mpc \notin {"precommit", "rediff"}
                     /\ ~hooksRun
    /\ vcs = "git" => /\ commitFn = "git"
                      /\ mpc \notin {"summary", "select", "select_read"}
                      /\ ~SelectorEntered
                      /\ savedFiles = <<>> /\ restoreCalls = <<>>

\* C26: the backend is detected in one step, the first of the run, and never
\* again: it is Jujutsu if and only if the jj root probe succeeds, else Git;
\* from then on it does not change and every operation of the run is one of
\* that backend.
C26_BackendDetectedOnce ==
    [][ /\ mpc = "detect"
            => /\ vcs = "unset"
               /\ mpc' # "detect"
                    => vcs' = IF jjRepo /\ ~canceled THEN "jj" ELSE "git"
        /\ mpc # "detect" => mpc' # "detect" /\ vcs' = vcs /\ vcs \in {"jj", "git"}
        /\ BackendOperations
        /\ BackendOperations'
      ]_vars

\* Outside a Jujutsu repository the run was a Git run: hooks ran and the
\* commit was Git's.
C26_Witness ==
    /\ ~jjRepo
    /\ vcs = "git"
    /\ hooksRun
    /\ exitKind = "done"
    /\ commits # <<>>

\* The places of a run where an external call is made or awaited.
CallSites ==
    {"summary", "select", "select_read", "diff", "precommit", "rediff", "filelist",
     "stat", "generate", "editing", "committing"}

\* C27: when a run ends with a non-zero status at an external call while the
\* cancellation signal has fired, what it reports is the interruption, not
\* the failure message of that call.
C27_CancelReportedAsInterruption ==
    [][ (mpc \in CallSites /\ mpc' = "exited" /\ canceled' /\ exitCode' # 0)
            => exitKind' = "interrupted"
      ]_vars

\* The phrases that mark a response of the generator as an error.
ErrorPhrases == {"execution error", "error:", "failed"}

HasErrorPhrase(msg) ==
    \E phrase \in ErrorPhrases : Contains(ToLower(msg), Chars(phrase))

\* C28: when the extracted message is empty or holds, in any case of letters,
\* one of the error phrases, the run ends with a non-zero status at the check:
\* the message was never presented and the commit function never called, in
\* auto-confirm and in interactive mode.
C28_BadMessageEndsRun ==
    [][ (mpc = "check" /\ mpc' # mpc
            /\ (commitMessage = <<>> \/ HasErrorPhrase(commitMessage)))
            => /\ mpc' = "exited"
               /\ exitCode' # 0
               /\ exitCode' # -1
               /\ shown' = 0
               /\ commitArgs' = <<>>
               /\ commits' = <<>>
               /\ ppc' = "idle"
      ]_vars

\* An auto-confirm run whose generator answered "Error: x" ended at the check.
C28_Witness ==
    /\ autoConfirm
    /\ exitKind = "ai_error"
    /\ commitMessage = Chars("Error: x")
    /\ exitCode = 1
    /\ commitArgs = <<>>

IsPrefixText(h, t) ==
    \/ h = <<>>
    \/ /\ Len(h) <= Len(t)
       /\ \A i \in 1..(Len(h) - 1) : h[i] = t[i]
       /\ h[Len(h)].byte = t[Len(h)].byte
       /\ h[Len(h)].count >= 1
       /\ h[Len(h)].count <= t[Len(h)].count

\* C30: the prompt handed to the generator embeds the whole diff, without
\* marker and without note, when the diff has at most maxDiffSize bytes; when
\* it has more, the prompt embeds exactly its first maxDiffSize bytes followed
\* by the truncation marker, and carries the note.
C30_DiffTruncatedAtMax ==
    genCalls > 0 =>
        LET d == DiffText(diff)
        IN  /\ prompt.fileList = fileList
            /\ prompt.stat = stat
            /\ IF TextLen(d) <= 50000
               THEN /\ prompt.diff = [head |-> d, tail |-> ""]
                    /\ prompt.note = ""
               ELSE /\ IsPrefixText(prompt.diff.head, d)
                    /\ TextLen(prompt.diff.head) = 50000
                    /\ prompt.diff.tail = TruncationMarker
                    /\ prompt.note = TruncationNote

\* A diff one byte longer than the maximum was cut.
C30_Witness ==
    /\ genCalls > 0
    /\ TextLen(DiffText(diff)) = maxDiffSize + 1
    /\ TextLen(prompt.diff.head) = maxDiffSize
    /\ prompt.diff.tail = TruncationMarker
    /\ prompt.note = TruncationNote

\* A diff of exactly the maximum was embedded whole.
C30_WitnessAtMax ==
    /\ genCalls > 0
    /\ TextLen(DiffText(diff)) = maxDiffSize
    /\ prompt.diff.tail = ""

\* C31: nothing is retried: in every run the text generator is invoked at
\* most once and the commit function at most once; a generation that fails
\* leaves no message and ends the run with a non-zero status, no commit made.
C31_NoRetry ==
    [][ /\ genCalls' <= 1
        /\ Len(commitArgs') <= 1
        /\ Len(commits') <= 1
        /\ (mpc = "generate" /\ mpc' # "check" /\ genCalls' # genCalls)
            => /\ mpc' = "exited"
               /\ exitCode' = 1
               /\ exitKind' \in {"generate_failed", "interrupted"}
               /\ commitMessage' = <<>>
               /\ commitArgs' = <<>>
               /\ commits' = <<>>
               /\ ppc' = "idle"
      ]_vars

\* The generator failed by itself and the run ended without a commit.
C31_Witness ==
    /\ exitKind = "generate_failed"
    /\ genCalls = 1
    /\ ~canceled
    /\ commitArgs = <<>>
    /\ exitCode = 1

\* The repository has a pre-commit hook that can run: the hook file without a
\* configuration, or a configuration with the pre-commit command installed and
\* staged files to check.
HasRunnableHook ==
    \/ ~hookEnv.config /\ hookEnv.hook
    \/ hookEnv.config /\ hookEnv.installed /\ hookEnv.acm

\* C32: in a Git run the pre-commit hooks run after the first diff was found
\* non-empty and before the text generator is invoked; a hook that fails ends
\* the run with a non-zero status, nothing generated and nothing committed;
\* with neither hook nor configuration the step passes without error; a
\* Jujutsu run never runs the hooks.
C32_HooksBeforeGeneration ==
    [][ /\ (hooksRun' /\ ~hooksRun)
            => mpc = "precommit" /\ vcs = "git" /\ diff # {} /\ genCalls = 0
        /\ (vcs = "git" /\ genCalls' > 0 /\ HasRunnableHook)
            => hooksRun /\ hookEnv.passes
        /\ (mpc = "precommit" /\ mpc' # mpc /\ ~canceled /\ HasRunnableHook /\ ~hookEnv.passes)
            => /\ hooksRun'
               /\ mpc' = "exited"
               /\ exitCode' = 1
               /\ genCalls' = 0
               /\ commitArgs' = <<>>
               /\ commits' = <<>>
        /\ (mpc = "precommit" /\ mpc' # mpc /\ ~hookEnv.config /\ ~hookEnv.hook)
            => mpc' = "rediff" /\ ~hooksRun' /\ exitKind' = "none"
        /\ vcs' = "jj" => ~hooksRun' /\ mpc' \notin {"precommit", "rediff"}
      ]_vars

\* The hook of a Git repository failed and the run ended before generation.
C32_Witness ==
    /\ vcs = "git"
    /\ exitKind = "precommit_failed"
    /\ hooksRun
    /\ ~hookEnv.passes
    /\ genCalls = 0
    /\ commitArgs = <<>>

\* A Git run without hook and configuration went on to a commit.
C32_WitnessNoHook ==
    /\ vcs = "git"
    /\ ~hookEnv.config /\ ~hookEnv.hook
    /\ ~hooksRun
    /\ exitKind = "done"

\* The file selector has returned its selection (it never returns an empty one).
SelectorReturned == selectedEntries # <<>>

\* The paths the selector returned.
ChosenPaths == PathSet(selectedEntries)

\* C34: when the selector returns fewer files than were changed, the diff, the
\* file list and the stat handed to the generator are those of exactly the
\* selected paths, the file list being the selected paths in their original
\* order, and the commit is the partial commit of exactly those paths against
\* the full list of entries; when it returns all files, the diff, file list
\* and stat of the whole change and the plain commit are used.
C34_SelectionNarrowsRun ==
    SelectorReturned =>
        /\ allEntries = wc
        /\ selectedEntries = SelectSeq(wc, LAMBDA e : e.Path \in ChosenPaths)
        /\ IF Len(selectedEntries) < Len(allEntries)
           THEN /\ commitFn = "jjPartial"
                /\ selectedPaths = ChosenPaths
                /\ (mpc = "filelist" \/ genCalls > 0) => diff = ChosenPaths
                /\ (mpc = "stat" \/ genCalls > 0) => fileList = PathsOf(selectedEntries)
                /\ genCalls > 0
                     => /\ stat \in {{}, ChosenPaths}
                        /\ prompt.fileList = PathsOf(selectedEntries)
                        /\ prompt.stat = stat
                        /\ IsPrefixText(prompt.diff.head, DiffText(ChosenPaths))
                        /\ prompt.diff.tail = ""
                             => prompt.diff.head = DiffText(ChosenPaths)
                /\ ppc # "plain"
                /\ restoreCalls # <<>> => restoreCalls = <<PathSet(wc) \ ChosenPaths>>
                /\ commits # <<>> => commits[1].paths = ChosenPaths
           ELSE /\ commitFn = "jj"
                /\ (mpc = "filelist" \/ genCalls > 0) => diff = PathSet(wc)
                /\ genCalls > 0
                     => /\ fileList \in {<<>>, PathsOf(wc)}
                        /\ stat \in {{}, PathSet(wc)}
                /\ ppc \in {"idle", "plain", "returned"}
                /\ savedFiles = <<>> /\ restoreCalls = <<>>
                /\ commits # <<>> => commits[1].paths = PathSet(wc)

\* Files 1 and 3 of three were selected and committed by the partial commit.
C34_Witness ==
    /\ Len(wc) = 3
    /\ PathsOf(selectedEntries) = <<1, 3>>
    /\ commitFn = "jjPartial"
    /\ prompt.fileList = <<1, 3>>
    /\ exitKind = "done"
    /\ commits[1].paths = {1, 3}
    /\ restoreCalls = <<{2}>>

\* All files were selected and the whole change was committed.
C34_WitnessAll ==
    /\ Len(wc) = 3
    /\ Len(selectedEntries) = 3
    /\ commitFn = "jj"
    /\ exitKind = "done"
    /\ commits[1].paths = {1, 2, 3}

\* C35: when the diff call returns and nothing is pending (at the first diff,
\* or for Git at the diff after the pre-commit hooks), the run ends with
\* status 0, and neither the text generator nor the commit function was or
\* will be invoked.
C35_EmptyDiffIsNoOp ==
    [][ /\ (mpc \in {"diff", "rediff"} /\ mpc' # mpc /\ ChangedPaths = {}
                /\ exitKind' \notin {"diff_failed", "interrupted"})
            => /\ mpc' = "exited"
               /\ exitCode' = 0
               /\ genCalls' = 0
               /\ commitArgs' = <<>>
               /\ commits' = <<>>
               /\ ppc' = "idle"
        /\ exitKind' = "noop"
            => exitCode' = 0 /\ genCalls' = 0 /\ commitArgs' = <<>> /\ commits' = <<>>
      ]_vars

\* A Git hook left nothing staged and the run ended as a no-op.
C35_Witness ==
    /\ vcs = "git"
    /\ hooksRun
    /\ ChangedPaths = {}
    /\ exitKind = "noop"
    /\ exitCode = 0
    /\ genCalls = 0

\* Nothing was changed at the start and the run ended as a no-op.
C35_WitnessInitial ==
    /\ wc = <<>>
    /\ ~hooksRun
    /\ exitKind = "noop"
    /\ exitCode = 0

\* The program is blocked in reader.ReadString: no line is available and
\* standard input is still open.
WaitingForLine ==
    \/ mpc = "select_read" /\ rbuf = <<>> /\ stdin = <<>> /\ ~eof
    \/ mpc = "prompt" /\ stdin = <<>> /\ ~eof

\* The steps of the program itself; what the user does is left out.
ProgramStep == MainStep \/ PartialStep

\* A run in which the program goes on whenever it can; nothing is assumed of
\* the user, who may never type another line nor close standard input.
SpecLive == Spec /\ WF_vars(ProgramStep)

\* C36: when the signal has fired while the selector or the confirmation loop
\* waits for a line, the process terminates, whether or not a further line of
\* input ever comes.
C36_CancelEndsBlockedRead ==
    (canceled /\ WaitingForLine) ~> (mpc = "exited")

\* The commit function runs, or has returned, in a run whose signal had fired
\* when it was called: nothing was committed, no restore call was made and
\* the files are as they were at the call.
CalledAfterCancel ==
    /\ canceled
    /\ mpc = "committing"
    /\ ppc \in {"entry", "plain", "capture", "restore", "returned"}
    /\ ppc = "returned" => perr.kind \in {"commit", "read", "restore"}
    /\ commits = <<>>
    /\ restoreCalls = <<>>
    /\ attempted = {}
    /\ disk = pre

\* C37: a commit function called after the signal has fired stays, step after
\* step, without a commit and without a restore call, the excluded files as
\* they were, until the run ends with a non-zero status that reports no
\* commit; no line of input is read any more.
C37_NoCommitAfterCancel ==
    [][ /\ (canceled /\ commitArgs' # commitArgs) => CalledAfterCancel'
        /\ CalledAfterCancel
            => \/ CalledAfterCancel' /\ stdin' = stdin /\ rbuf' = rbuf
               \/ /\ mpc' = "exited"
                  /\ exitKind' = "interrupted"
                  /\ exitCode' = 1
                  /\ commits' = <<>>
                  /\ restoreCalls' = <<>>
                  /\ disk' = pre
                  /\ stdin' = stdin
      ]_vars

\* The user confirmed a partial commit after the signal: the restore was
\* refused and the run ended interrupted, the files untouched.
C37_Witness ==
    /\ commitFn = "jjPartial"
    /\ Len(commitArgs) = 1
    /\ canceled
    /\ savedFiles # <<>>
    /\ perr.kind = "restore"
    /\ restoreCalls = <<>>
    /\ commits = <<>>
    /\ disk = pre
    /\ exitKind = "interrupted"

\* C38: a read of the confirmation loop takes exactly the first pending line
\* of standard input and leaves the lines after it, in order, to the next
\* read; so does a read of the file selector, the one of its final confirming
\* line included.
C38_NoLineLost ==
    [][ /\ (mpc = "prompt" /\ mpc' # mpc /\ stdin # <<>>)
            => stdin' = Tail(stdin)
        /\ (mpc = "select_read" /\ mpc' # mpc /\ rbuf \o stdin # <<>>)
            => rbuf' \o stdin' = Tail(rbuf \o stdin)
      ]_vars

\* C39: the message is checked for the error phrases at one place only, right
\* after its generation; an edit that yields a non-empty text makes that text
\* the current message and goes back to the presentation without a check, so
\* that a text holding an error phrase is presented and can be committed.
C39_EditIsNotRechecked ==
    [][ /\ (mpc' = "check" /\ mpc # "check") => mpc = "generate" /\ genCalls' = 1
        /\ (mpc = "editing" /\ mpc' # mpc /\ lastEdit'.ok /\ lastEdit'.text # <<>>)
            => /\ commitMessage' = lastEdit'.text
               /\ mpc' = "present"
               /\ exitKind' = "none"
      ]_vars

\* The edited message "it failed" was committed.
C39_Witness ==
    /\ exitKind = "done"
    /\ Len(commits) = 1
    /\ commits[1].message = Chars("it failed")
    /\ HasErrorPhrase(commits[1].message)

----------------------------------------------------------------------------
(* Claims about extractCommitMessage, checked under SpecExtract            *)

\* The lines of r and the text of r from its first header line onward.
HasHeader(r) == \E i \in 1..Len(SplitLines(r)) : IsHeaderLine(SplitLines(r)[i])

FirstHeader(r) ==
    LET lines == SplitLines(r)
    IN  CHOOSE i \in 1..Len(lines) :
            IsHeaderLine(lines[i]) /\ \A j \in 1..(i - 1) : ~IsHeaderLine(lines[j])

FromHeader(r) ==
    LET lines == SplitLines(r)
    IN  JoinLines(SubSeq(lines, FirstHeader(r), Len(lines)))

\* The lines of r from its first header line up to, not including, the first
\* fence line at or after it.
HeaderToFence(r) ==
    LET lines == SplitLines(r)
        h     == FirstHeader(r)
        stop  == IF \E f \in h..Len(lines) : TrimSpace(lines[f]) = Fence
                 THEN CHOOSE f \in h..Len(lines) :
                          /\ TrimSpace(lines[f]) = Fence
                          /\ \A g \in h..(f - 1) : TrimSpace(lines[g]) # Fence
                 ELSE Len(lines) + 1
    IN  JoinLines(SubSeq(lines, h, stop - 1))

\* e without surrounding whitespace and without trailing lines that are
\* exactly the separator.
RECURSIVE WithoutSeparatorLines(_)
WithoutSeparatorLines(e) ==
    LET t     == TrimSpace(e)
        lines == SplitLines(t)
    IN  IF TrimSpace(lines[Len(lines)]) = Separator
        THEN WithoutSeparatorLines(JoinLines(SubSeq(lines, 1, Len(lines) - 1)))
        ELSE t

\* C5: extractCommitMessage is idempotent: applied to its own result it
\* returns that result.
C5_Idempotent == xpc = "twice" => out2 = out

\* C6: when raw has a header line, the result is text of raw that starts at
\* the first header line: it begins with that line's type token and is a
\* prefix of raw from that line on, whatever precedes the line.
C6_FromFirstHeader ==
    (xpc # "in" /\ HasHeader(raw)) =>
        /\ out # <<>>
        /\ ~IsSpace(out[1])
        /\ IsHeaderLine(SplitLines(out)[1])
        /\ HasPrefix(TrimLeft(FromHeader(raw)), out)

C6_Witness ==
    /\ xpc = "once"
    /\ HasHeader(raw)
    /\ FirstHeader(raw) > 1
    /\ Len(SplitLines(out)) > 1

\* C7: when raw has no header line, the result is raw itself, untrimmed and
\* with its fences and separators.
C7_FallbackUnchanged == (xpc # "in" /\ ~HasHeader(raw)) => out = raw

C7_Witness ==
    /\ xpc = "once"
    /\ ~HasHeader(raw)
    /\ raw # <<>>
    /\ IsSpace(raw[1])
    /\ HasSuffix(raw, Separator)
    /\ \E i \in 1..Len(SplitLines(raw)) : SplitLines(raw)[i] = Fence

\* C8: when raw has a header line, the result holds nothing from the first
\* fence line at or after the header, and no line of the result is a fence.
C8_TruncatedAtFence ==
    (xpc # "in" /\ HasHeader(raw)) =>
        /\ HasPrefix(TrimLeft(HeaderToFence(raw)), out)
        /\ \A i \in 1..Len(SplitLines(out)) : TrimSpace(SplitLines(out)[i]) # Fence

\* C9: when raw has a header line, the last step removes only surrounding
\* whitespace and trailing lines that are exactly the separator.
C9_OnlySeparatorLines ==
    (xpc # "in" /\ HasHeader(raw)) => out = WithoutSeparatorLines(HeaderToFence(raw))

----------------------------------------------------------------------------
(* Claims about jjPartialCommit, checked under SpecPartial                 *)

Returned(k) == ppc = "returned" /\ perr.kind = k

\* C2: after jjPartialCommit returns success, every excluded file is on disk
\* as it was before the call: a Modified or Added one exists with its original
\* bytes, a Deleted one is absent.
C2_ExcludedPreserved ==
    Returned("nil") =>
        \A i \in 1..Len(ExcludedEntries) :
            LET e == ExcludedEntries[i]
            IN  /\ disk[e.Path] = pre[e.Path]
                /\ e.Status = "D" => ~disk[e.Path].exists
                /\ e.Status # "D" => disk[e.Path] = File(WorkContent(e.Path))

C2_Witness ==
    /\ Returned("nil")
    /\ restoreCalls # <<>>
    /\ \E i, j \in 1..Len(ExcludedEntries) :
           ExcludedEntries[i].Status = "D" /\ ExcludedEntries[j].Status = "A"

\* C3 as stated: if the commit inside jjPartialCommit fails, every excluded
\* file is back in its pre-operation state when the error is returned.
C3_AllRestored ==
    (Returned("commit") /\ ExcludedEntries # <<>>) =>
        \A p \in ExcludedPaths : disk[p] = pre[p]

\* C3 amended: if the commit inside jjPartialCommit fails, a restoration has
\* been attempted for every excluded file when the error is returned, and every
\* excluded file whose restoration was not reported as failed is back in its
\* pre-operation state.
C3_RestoredUnlessFailed ==
    (Returned("commit") /\ ExcludedEntries # <<>>) =>
        /\ attempted = ExcludedPaths
        /\ \A p \in ExcludedPaths \ logged : disk[p] = pre[p]

C3_Witness ==
    /\ Returned("commit")
    /\ logged # {}
    /\ \E p \in ExcludedPaths \ logged : pre[p].exists /\ disk[p] = pre[p]

\* C4: if jjPartialCommit fails before the commit step (a read of an excluded
\* file fails, or the restore call fails), no commit was invoked and every
\* excluded file is on disk as it was before the call.
C4_FailsBeforeCommitUnchanged ==
    (Returned("read") \/ Returned("restore")) =>
        /\ commits = <<>>
        /\ \A p \in ExcludedPaths : disk[p] = pre[p]

\* The paths of the captured files from position idx on: those the
\* post-commit restoration has not yet re-applied.
NotYetRestored ==
    [i \in 1..(Len(savedFiles) - idx + 1) |-> savedFiles[idx + i - 1].path]

\* C21: if the cancellation signal fires during the restoration that follows
\* the commit, jjPartialCommit returns the cancellation error before the next
\* file is re-applied, and the list it prints holds exactly the excluded paths
\* not yet restored, none that was restored.
C21_ListsOnlyUnrestored ==
    Returned("ctx") =>
        /\ commits # <<>>
        /\ attempted = { savedFiles[i].path : i \in 1..(idx - 1) }
        /\ manualList = NotYetRestored
        /\ \A i \in 1..Len(manualList) : manualList[i] \notin attempted

\* The state of a file in which its captured disposition leaves it.
Captured(saved) == IF saved.deleted THEN AbsentFile ELSE File(saved.content)

\* The restoration after the commit re-applies a captured file in this step.
ReappliesOne ==
    /\ ppc = "reapply"
    /\ idx <= Len(savedFiles)
    /\ ~canceled
    /\ canceled' = canceled

C23_RollbackAttemptsAll ==
    [][ /\ (ppc = "rollback" /\ idx <= Len(savedFiles) /\ canceled' = canceled)
            => /\ ppc' = "rollback"
               /\ attempted' = attempted \cup {savedFiles[idx].path}
               /\ idx' = idx + 1
        /\ (ppc = "rollback" /\ ppc' # "rollback")
            => /\ ppc' = "returned"
               /\ perr'.kind = "commit"
               /\ attempted = { savedFiles[i].path : i \in 1..Len(savedFiles) }
               /\ attempted = ExcludedPaths
               /\ commits' = <<>>
      ]_vars

\* The commit failed with the signal fired, one restoration of the rollback
\* failed, and both captured files were attempted.
C23_Witness ==
    /\ Returned("commit")
    /\ canceled
    /\ restoreCalls # <<>>
    /\ logged # {}
    /\ attempted = {2, 3}
    /\ ExcludedPaths = {2, 3}

\* C24: when every path of allEntries is selected, jjPartialCommit is the
\* plain commit: no file is captured, no restore is invoked, no file is
\* written or deleted, and the result is that of the commit of the whole
\* working copy.
C24_AllSelectedIsPlainCommit ==
    (mpc = "idle" /\ PathSet(allEntries) \subseteq selectedPaths /\ ppc # "entry")
        => /\ ppc \in {"plain", "returned"}
           /\ savedFiles = <<>>
           /\ restoreCalls = <<>>
           /\ attempted = {}
           /\ disk = pre
           /\ ppc = "returned"
                => \/ perr.kind = "nil" /\ Len(commits) = 1
                                        /\ commits[1].paths = PathSet(allEntries)
                                        /\ commits[1].message = pmessage
                   \/ perr.kind = "commit" /\ commits = <<>>

\* The whole commit of three files succeeded.
C24_Witness ==
    /\ mpc = "idle"
    /\ selectedPaths = Paths
    /\ Len(allEntries) = MaxFiles
    /\ Returned("nil")
    /\ Len(commits) = 1

\* The paths of the files captured so far, in the order of capture.
SavedPaths == [i \in 1..Len(savedFiles) |-> savedFiles[i].path]

\* jjPartialCommit has come to the commit call, or gone past it.
AtOrPastCommit == ppc \in {"commit", "rollback", "reapply"} \/ attempted # {} \/ commits # <<>>

\* C33: with files excluded, jjPartialCommit keeps a fixed order: all excluded
\* files are captured before the restore call; restore is called once, with
\* exactly the excluded paths; the commit is invoked only after that restore
\* has succeeded; no excluded file is rewritten or deleted again before the
\* commit call has returned.
C33_FixedOrder ==
    (mpc = "idle" /\ ExcludedEntries # <<>> /\ ppc # "entry")
        => /\ ppc = "capture"
                => restoreCalls = <<>> /\ commits = <<>> /\ attempted = {} /\ disk = pre
           /\ restoreCalls # <<>>
                => /\ restoreCalls = <<ExcludedPaths>>
                   /\ SavedPaths = PathsOf(ExcludedEntries)
           /\ AtOrPastCommit
                => /\ restoreCalls = <<ExcludedPaths>>
                   /\ SavedPaths = PathsOf(ExcludedEntries)
                   /\ perr.kind \notin {"read", "restore"}
           /\ ppc = "commit"
                => /\ commits = <<>>
                   /\ attempted = {}
                   /\ \A p \in ExcludedPaths : disk[p] = parent[p]
           /\ ppc \in {"capture", "restore"} => attempted = {} /\ commits = <<>>

\* Two excluded files were captured and restored in one call, the commit was
\* made and both files were re-applied after it.
C33_Witness ==
    /\ mpc = "idle"
    /\ ExcludedPaths = {2, 3}
    /\ restoreCalls = <<{2, 3}>>
    /\ Len(commits) = 1
    /\ attempted = {2, 3}
    /\ Returned("nil")

\* C40: after a partial commit that succeeded, every excluded file that
\* existed before the call has the permission bits it had before, a file of
\* status Added, which restore removes and the restoration creates again,
\* included.
C40_PermissionsKept ==
    (Returned("nil") /\ restoreCalls # <<>>)
        => \A p \in ExcludedPaths :
               pre[p].exists => mode[p] = ModeOf(pre[p], p)

====
